---- MODULE Spec2Model ----
(***************************************************************************)
(* Model of the visit store of countries_visited (src/h5_utils.py): one    *)
(* HDF5 file holding a /players group with one sub-group per participant   *)
(* (attributes colour and created, resizable string dataset visited), and  *)
(* the six operations init_h5, add_player, update_visits, get_players,     *)
(* clear_player_visits and delete_player.  Every operation opens the file, *)
(* runs its statements in order and closes the file; HDF5 has no rollback, *)
(* so the statements an operation completed before an exception stay in    *)
(* the file when the with-block closes it.                                 *)
(***************************************************************************)
EXTENDS Integers, Sequences, FiniteSets, TLC

\* ------------------------------------------------------------------ bounds
\* Largest total number of codes stored in the file (all participants).
MaxStored == 3
\* Largest number of codes passed to one update_visits call.
MaxCodes == 2
\* Largest reading of the wall clock (datetime.now); readings are 1..MaxClock.
MaxClock == 2
\* Largest number of statements that raise in the middle of an operation.
MaxFaults == 1
\* Largest number of owners of one country passed to style_fn.
MaxOwners == 3
\* Largest number of palettes in the "palettes" list of palettes.json.
MaxPalettes == 2

\* ------------------------------------------------------------------ inputs
Ids == {"A", "B"}
Colours == {"#111111", "#222222"}
Codes == {"US", "CA", "FR"}

\* The colour attribute is not in the group's attrs.
NoColour == "<no colour attr>"
\* The created attribute is not in the group's attrs; get_players reads "".
NoCreated == 0
\* An element of the visited dataset, dtype h5py.string_dtype(encoding=
\* "utf-8"): what is written is the UTF-8 encoding of the Python string, and
\* what a read returns is a bytes object, not a str.
Utf8(code) == [bytes |-> code]

\* The value HDF5 gives the elements of a string dataset that was grown by
\* resize and not written yet: the empty byte string.
FillValue == Utf8("")
\* The id slot of lastOp for an operation that takes no player_id.
NoArg == "-"

RECURSIVE SeqsUpTo(_, _)
SeqsUpTo(S, n) ==
    IF n = 0 THEN {<<>>}
    ELSE LET shorter == SeqsUpTo(S, n - 1)
         IN  shorter \cup {Append(q, x) : q \in shorter, x \in S}

\* The iso_codes arguments: non-empty lists of codes (the callers never pass
\* an empty list).
CodeLists == SeqsUpTo(Codes, MaxCodes) \ {<<>>}

\* The codes and iso_codes arguments of the round-trip runs.
RoundTripCodes == {"DE", "FR"}

RoundTripLists == SeqsUpTo(RoundTripCodes, MaxCodes) \ {<<>>}

\* The browser sessions that run the application against the one store.
Sessions == {"s1", "s2"}

\* A session whose save handler is not running.
Idle == [pc |-> "idle", id |-> NoArg, selection |-> {}]

\* style_fn has not returned.
NoResult == [fillColor |-> <<>>, color |-> "", warning |-> FALSE]

\* No country is being styled.
NoStyle == [owners |-> <<>>, result |-> NoResult]

\* The empty dict {} that get_palettes returns when it fails.  A mapping
\* of palettes has its palette names with their lists of hex codes (names)
\* and, under the key _color_info, the hex codes that have a display name
\* (info); the key _color_info is in every dict but the empty one.
EmptyMapping == [empty |-> TRUE, names |-> <<>>, info |-> {}]

\* main has not reached its palette load.
NoPalette ==
    [source |-> [kind |-> "missing"], pc |-> "off", palettes |-> EmptyMapping]

\* No map feature is being styled.
NoRender ==
    [iso |-> "", player_data |-> [n \in {} |-> <<>>], result |-> NoResult]

\* The multi-player page has not run.
NoUi == [pc |-> "off"]

\* The session state before the first script run.
NoAuth == [pc |-> "off"]

\* No Redis server is looked at.
NoRedis == [pc |-> "off"]

VARIABLES
    dirExists,    \* os.path.exists(os.path.dirname(filename)), or no dirname
    fileExists,   \* os.path.exists(filename)
    hasPlayers,   \* "/players" in f
    store,        \* the members of /players: a set of participant groups
    clock,        \* last reading of datetime.datetime.now(UTC)
    faults,       \* statements that have raised in the middle of an operation
    lastOp,       \* the operation that returned last: name, player_id, result,
                  \* and what its target held before it ran
    session,      \* per browser session: where its save handler stands
    style,        \* the owners style_fn was last called with, and its result
    palette,      \* main's palette load: the source, the step, the palettes
    render,       \* style_fn on a map feature: the feature, player_data, result
    ui,           \* multi-player mode: the players global and the session state
    auth,         \* the login part of the session state
    redis         \* the keys of the Redis database, and the calls in progress

vars == <<dirExists, fileExists, hasPlayers, store, clock, faults, lastOp,
          session, style, palette, render, ui, auth, redis>>

\* The parts of the application outside the store, the save handlers and
\* the colour merge.
laterVars == <<palette, render, ui, auth, redis>>

\* What the operations of the store leave alone.
appVars == <<session, style, laterVars>>

\* The later parts of the application at rest.
LaterIdle ==
    /\ palette = NoPalette
    /\ render = NoRender
    /\ ui = NoUi
    /\ auth = NoAuth
    /\ redis = NoRedis

\* The store as the operations see it.
storeVars == <<dirExists, fileExists, hasPlayers, store, clock>>

\* ------------------------------------------------------------- the file
Group(s, player_id) == {e \in s : e.name = player_id}

Names(s) == {e.name : e \in s}

RECURSIVE Stored(_)
Stored(s) ==
    IF s = {} THEN 0
    ELSE LET e == CHOOSE x \in s : TRUE
         IN  Len(e.visited) + Stored(s \ {e})

SetToSet(q) == {q[i] : i \in 1..Len(q)}

\* The elements h5py writes for a list of strings.
Encoded(iso_codes) == [i \in 1..Len(iso_codes) |-> Utf8(iso_codes[i])]

\* Faulty variant of AsStr: str(b) of a bytes object, which is its repr.
AsStr_Repr(b) ==
    CASE b.bytes = "DE" -> "b'DE'"
      [] b.bytes = "FR" -> "b'FR'"
      [] OTHER -> "b'..'"

\* ndarray.astype(str) on the object array of bytes a read returns: each
\* element is decoded as ASCII into a str (the codes are ASCII).
AsStr(b) == b.bytes

\* What the target of an operation looked like before it ran.
Had(s, player_id) ==
    IF Group(s, player_id) = {} THEN "absent"
    ELSE IF \E e \in Group(s, player_id) : e.visited # <<>> THEN "visits"
    ELSE "empty"

HadStore(s) ==
    IF s = {} THEN "absent"
    ELSE IF \E e \in s : e.visited # <<>> THEN "visits"
    ELSE "empty"

\* f.require_group("/players/<id>"): the group of that name, created (with
\* the intermediate /players) when there is none.
NewGroup(player_id) ==
    [name |-> player_id, hasVisited |-> FALSE, visited |-> <<>>,
     colour |-> NoColour, created |-> NoCreated]

\* Faulty variant of RequireGroup: a member is added without looking for one
\* of that name.
RequireGroup_Create(s, player_id) == s \cup {NewGroup(player_id)}

RequireGroup(s, player_id) ==
    IF Group(s, player_id) = {} THEN s \cup {NewGroup(player_id)} ELSE s

\* if "visited" not in g: g.create_dataset("visited", shape=(0,), ...)
\* Faulty variant of CreateDataset: the "visited" not in g test is missing
\* and the dataset is made anew each time.
CreateDataset_Always(e) == [e EXCEPT !.hasVisited = TRUE, !.visited = <<>>]

CreateDataset(e) ==
    IF e.hasVisited THEN e
    ELSE [e EXCEPT !.hasVisited = TRUE, !.visited = <<>>]

\* Faulty variant of SetColour: the attribute is written under another key,
\* so "colour" stays as it was.
SetColour_WrongKey(e, colour) == e

\* g.attrs["colour"] = colour
SetColour(e, colour) == [e EXCEPT !.colour = colour]

\* g.attrs["created"] = datetime.datetime.now(UTC).isoformat()
SetCreated(e, t) == [e EXCEPT !.created = t]

\* dset.resize((now + len(iso_codes),)): the new elements hold the fill value.
Resize(e, n) ==
    [e EXCEPT !.visited =
        IF n <= Len(e.visited) THEN SubSeq(e.visited, 1, n)
        ELSE e.visited \o [i \in 1..(n - Len(e.visited)) |-> FillValue]]

\* Faulty variant of WriteSlice: the codes are written from the start of the
\* dataset, dset[:len(iso_codes)] = iso_codes.
WriteSlice_FromStart(e, now, iso_codes) ==
    [e EXCEPT !.visited =
        Encoded(iso_codes)
            \o SubSeq(e.visited, Len(iso_codes) + 1, Len(e.visited))]

\* dset[now:] = iso_codes
WriteSlice(e, now, iso_codes) ==
    [e EXCEPT !.visited = SubSeq(e.visited, 1, now) \o Encoded(iso_codes)]

\* Faulty variant of RemoveGroup: del f["/players"], every member goes.
RemoveGroup_All(s, player_id) == {}

\* del f["/players/<id>"]
RemoveGroup(s, player_id) == s \ Group(s, player_id)

\* ------------------------------------------------------------- get_players
\* The mapping get_players builds; err when a group lacks the colour
\* attribute or the visited dataset (KeyError).  The bytes the dataset
\* returns go through astype(str); set() drops order and repeats.
ReadGroup(e) ==
    [colour |-> e.colour,
     visited |-> {AsStr(b) : b \in SetToSet(e.visited)},
     created |-> e.created]

GetPlayers(exists, players, s) ==
    IF ~exists \/ ~players THEN [err |-> FALSE, players |-> <<>>]
    ELSE IF \E e \in s : e.colour = NoColour \/ ~e.hasVisited
         THEN [err |-> TRUE, players |-> <<>>]
    ELSE [err |-> FALSE,
          players |-> [n \in Names(s) |->
                          ReadGroup(CHOOSE e \in s : e.name = n)]]

Read == GetPlayers(fileExists, hasPlayers, store)

Op(op, player_id, result, had) ==
    [op |-> op, id |-> player_id, result |-> result, had |-> had]

TypeOK ==
    /\ dirExists \in BOOLEAN
    /\ fileExists \in BOOLEAN
    /\ hasPlayers \in BOOLEAN
    /\ clock \in 1..MaxClock
    /\ faults \in 0..MaxFaults
    /\ \A e \in store :
          /\ e.name \in Ids
          /\ e.colour \in Colours \cup {NoColour}
          /\ e.created \in 0..MaxClock
          /\ e.hasVisited \in BOOLEAN
    /\ Stored(store) <= MaxStored

Init ==
    /\ dirExists = TRUE
    /\ fileExists = FALSE
    /\ hasPlayers = FALSE
    /\ store = {}
    /\ clock = 1
    /\ faults = 0
    /\ lastOp = Op("start", NoArg, "ok", "absent")
    /\ session = [s \in Sessions |-> Idle]
    /\ style = NoStyle
    /\ LaterIdle

\* ------------------------------------------------------------- operations
\* Each operation takes `done`, the number of its statements that completed
\* before it returned: all of them on a normal return, fewer when one raised.

\* How an operation returns: normally, or with the exception a statement
\* raised.
Outcome(done, all) == IF done = all THEN "ok" ELSE "raised"

\* A statement raising in the middle of an operation is counted in faults.
Fault(done, all) ==
    /\ done < all => faults < MaxFaults
    /\ faults' = IF done < all THEN faults + 1 ELSE faults

\* init_h5(filename, palette_hexes): statement 1 is os.makedirs of the
\* parent directory, run when the filename has one and it does not exist;
\* 2 opens the file with "w" (truncating it), 3 creates /players, 4 saves
\* the palette when one is given.  done = 0: the directory cannot be made;
\* done = 1: the file cannot be created in it; nothing of the store is
\* touched in either case.  Every exception is caught and turned into the
\* return value False; none leaves init_h5.
\* The palette snapshot /palettes/hex_codes is read by no operation; its
\* write is a statement that can raise, and the state keeps no variable for
\* it.
InitStatements(palette_hexes) == IF palette_hexes THEN 4 ELSE 3

InitResult(palette_hexes, done) ==
    IF done = InitStatements(palette_hexes) THEN "True" ELSE "False"

\* What init_h5 found at its target.
InitHad == IF ~dirExists THEN "nodir" ELSE HadStore(store)

\* Faulty variant of init_h5: the file is opened with "a", which keeps what
\* it holds.
init_h5_append(palette_hexes, done) ==
    /\ done \in 0..InitStatements(palette_hexes)
    /\ done = 0 => ~dirExists
    /\ dirExists' = (dirExists \/ done >= 1)
    /\ fileExists' = (fileExists \/ done >= 2)
    /\ store' = store
    /\ hasPlayers' = (hasPlayers \/ done >= 3)
    /\ lastOp' = Op("init_h5", NoArg, InitResult(palette_hexes, done), InitHad)
    /\ UNCHANGED clock

\* Faulty variant of init_h5: os.makedirs is not called, and the open fails
\* in a directory that does not exist.
init_h5_nomakedirs(palette_hexes, done) ==
    /\ done \in 0..InitStatements(palette_hexes)
    /\ done = 0 => ~dirExists
    /\ ~dirExists => done <= 1
    /\ dirExists' = dirExists
    /\ fileExists' = (fileExists \/ done >= 2)
    /\ store' = IF done >= 2 THEN {} ELSE store
    /\ hasPlayers' = IF done >= 2 THEN done >= 3 ELSE hasPlayers
    /\ lastOp' = Op("init_h5", NoArg, InitResult(palette_hexes, done), InitHad)
    /\ UNCHANGED clock

init_h5(palette_hexes, done) ==
    /\ done \in 0..InitStatements(palette_hexes)
    /\ done = 0 => ~dirExists
    /\ dirExists' = (dirExists \/ done >= 1)
    /\ fileExists' = (fileExists \/ done >= 2)
    /\ store' = IF done >= 2 THEN {} ELSE store
    /\ hasPlayers' = IF done >= 2 THEN done >= 3 ELSE hasPlayers
    /\ lastOp' = Op("init_h5", NoArg, InitResult(palette_hexes, done), InitHad)
    /\ UNCHANGED clock

\* h5py.File(filename, "a") of add_player, update_visits,
\* clear_player_visits and delete_player raises OSError when the directory
\* of the file does not exist; nothing is created.
OpenOps == {"add_player", "update_visits", "clear_player_visits",
            "delete_player"}

open_refused(op, player_id) ==
    /\ ~dirExists
    /\ lastOp' = Op(op, player_id, "OSError", "nodir")
    /\ UNCHANGED <<dirExists, fileExists, hasPlayers, store, clock>>

\* add_player(player_id, colour): the file is opened with "a" (created when
\* missing); statement 1 is require_group, 2 the creation of the visited
\* dataset when the group has none, 3 the colour attribute, 4 the created
\* attribute, written with the clock reading t.
AddPlayerStatements == 4

AddPlayerDone(s, player_id, colour, t, done) ==
    LET s1 == IF done >= 1 THEN RequireGroup(s, player_id) ELSE s
        g1(e) == IF done >= 2 THEN CreateDataset(e) ELSE e
        g2(e) == IF done >= 3 THEN SetColour(g1(e), colour) ELSE g1(e)
        g3(e) == IF done >= 4 THEN SetCreated(g2(e), t) ELSE g2(e)
    IN  {IF e.name = player_id THEN g3(e) ELSE e : e \in s1}

add_player(player_id, colour, done) ==
    /\ done \in 0..AddPlayerStatements
    /\ dirExists
    /\ \E t \in IF done = AddPlayerStatements THEN clock..MaxClock ELSE {clock} :
          /\ store' = AddPlayerDone(store, player_id, colour, t, done)
          /\ clock' = t
    /\ fileExists' = TRUE
    /\ hasPlayers' = (hasPlayers \/ done >= 1)
    /\ lastOp' = Op("add_player", player_id,
                    Outcome(done, AddPlayerStatements), Had(store, player_id))
    /\ UNCHANGED dirExists

\* update_visits(player_id, iso_codes): f["/players/<id>/visited"] raises
\* KeyError when the group or its dataset is missing; statement 1 is the
\* resize, 2 the write of the new slice.
UpdateVisitsStatements == 2

HasDataset(s, player_id) == \E e \in Group(s, player_id) : e.hasVisited

\* Faulty variant of UpdateVisitsDone: codes the dataset already holds are
\* left out of what is appended.
UpdateVisitsDone_Dedup(s, player_id, iso_codes, done) ==
    LET now(e) == Len(e.visited)
        fresh(e) == LET New(c) == Utf8(c) \notin SetToSet(e.visited)
                    IN  SelectSeq(iso_codes, New)
        d1(e) == IF done >= 1 THEN Resize(e, now(e) + Len(fresh(e))) ELSE e
        d2(e) == IF done >= 2 THEN WriteSlice(d1(e), now(e), fresh(e)) ELSE d1(e)
    IN  {IF e.name = player_id THEN d2(e) ELSE e : e \in s}

UpdateVisitsDone(s, player_id, iso_codes, done) ==
    LET now(e) == Len(e.visited)
        d1(e) == IF done >= 1 THEN Resize(e, now(e) + Len(iso_codes)) ELSE e
        d2(e) == IF done >= 2 THEN WriteSlice(d1(e), now(e), iso_codes) ELSE d1(e)
    IN  {IF e.name = player_id THEN d2(e) ELSE e : e \in s}

\* Faulty variant of update_visits: the lookup is guarded as in
\* clear_player_visits, so a missing participant is passed over in silence.
update_visits_guarded(player_id, iso_codes, done) ==
    /\ done \in 0..UpdateVisitsStatements
    /\ dirExists
    /\ fileExists' = TRUE
    /\ IF HasDataset(store, player_id)
       THEN /\ Stored(store) + Len(iso_codes) <= MaxStored
            /\ store' = UpdateVisitsDone(store, player_id, iso_codes, done)
            /\ lastOp' = Op("update_visits", player_id,
                            Outcome(done, UpdateVisitsStatements),
                            Had(store, player_id))
       ELSE /\ done = UpdateVisitsStatements
            /\ store' = store
            /\ lastOp' = Op("update_visits", player_id, "ok",
                            Had(store, player_id))
    /\ UNCHANGED <<dirExists, hasPlayers, clock>>

update_visits(player_id, iso_codes, done) ==
    /\ done \in 0..UpdateVisitsStatements
    /\ dirExists
    /\ fileExists' = TRUE
    /\ IF HasDataset(store, player_id)
       THEN /\ Stored(store) + Len(iso_codes) <= MaxStored
            /\ store' = UpdateVisitsDone(store, player_id, iso_codes, done)
            /\ lastOp' = Op("update_visits", player_id,
                            Outcome(done, UpdateVisitsStatements),
                            Had(store, player_id))
       ELSE /\ done = UpdateVisitsStatements
            /\ store' = store
            /\ lastOp' = Op("update_visits", player_id, "KeyError",
                            Had(store, player_id))
    /\ UNCHANGED <<dirExists, hasPlayers, clock>>

\* clear_player_visits(player_id): nothing is done when the group is
\* missing; otherwise the one statement is the resize to 0 (KeyError when the
\* group has no dataset).
ClearStatements == 1

\* Faulty variant of ClearDone: the group is unlinked instead of its dataset
\* being resized.
ClearDone_Unlinks(s, player_id, done) ==
    IF done >= 1 THEN RemoveGroup(s, player_id) ELSE s

ClearDone(s, player_id, done) ==
    IF done >= 1
    THEN {IF e.name = player_id THEN Resize(e, 0) ELSE e : e \in s}
    ELSE s

clear_player_visits(player_id, done) ==
    /\ done \in 0..ClearStatements
    /\ dirExists
    /\ fileExists' = TRUE
    /\ IF Group(store, player_id) = {}
       THEN /\ done = ClearStatements
            /\ store' = store
            /\ lastOp' = Op("clear_player_visits", player_id, "ok", "absent")
       ELSE IF ~HasDataset(store, player_id)
       THEN /\ done = ClearStatements
            /\ store' = store
            /\ lastOp' = Op("clear_player_visits", player_id, "KeyError",
                            Had(store, player_id))
       ELSE /\ store' = ClearDone(store, player_id, done)
            /\ lastOp' = Op("clear_player_visits", player_id,
                            Outcome(done, ClearStatements),
                            Had(store, player_id))
    /\ UNCHANGED <<dirExists, hasPlayers, clock>>

\* delete_player(player_id): nothing is done when the group is missing;
\* otherwise the one statement unlinks the group with all it holds.
DeleteStatements == 1

DeleteDone(s, player_id, done) ==
    IF done >= 1 THEN RemoveGroup(s, player_id) ELSE s

delete_player(player_id, done) ==
    /\ done \in 0..DeleteStatements
    /\ dirExists
    /\ fileExists' = TRUE
    /\ store' = DeleteDone(store, player_id, done)
    /\ Group(store, player_id) = {} => done = DeleteStatements
    /\ lastOp' = Op("delete_player", player_id,
                    Outcome(done, DeleteStatements), Had(store, player_id))
    /\ UNCHANGED <<dirExists, hasPlayers, clock>>

\* Faulty variant of get_players: the os.path.exists test is missing and
\* the file is opened with "a", which creates it.
get_players_creates ==
    /\ lastOp' = Op("get_players", NoArg,
                    IF Read.err THEN "KeyError" ELSE "ok", HadStore(store))
    /\ fileExists' = TRUE
    /\ UNCHANGED <<dirExists, hasPlayers, store, clock>>

\* get_players(): reads, and changes nothing in the file.
get_players ==
    /\ lastOp' = Op("get_players", NoArg,
                    IF Read.err THEN "KeyError" ELSE "ok", HadStore(store))
    /\ UNCHANGED <<dirExists, fileExists, hasPlayers, store, clock>>

\* ------------------------------------------------------- specifications
\* Spec: every operation runs to its end (or fails in its first lookup);
\* init_h5 may find its target impossible to create.
InitH5 ==
    \E palette_hexes \in BOOLEAN :
        /\ init_h5(palette_hexes, InitStatements(palette_hexes))
        /\ UNCHANGED <<faults, appVars>>

InitH5Refused ==
    \E palette_hexes \in BOOLEAN, done \in {0, 1} :
        /\ init_h5(palette_hexes, done)
        /\ UNCHANGED <<faults, appVars>>

AddPlayer ==
    \E player_id \in Ids, colour \in Colours :
        /\ add_player(player_id, colour, AddPlayerStatements)
        /\ UNCHANGED <<faults, appVars>>

UpdateVisits ==
    \E player_id \in Ids, iso_codes \in CodeLists :
        /\ update_visits(player_id, iso_codes, UpdateVisitsStatements)
        /\ UNCHANGED <<faults, appVars>>

ClearPlayerVisits ==
    \E player_id \in Ids :
        /\ clear_player_visits(player_id, ClearStatements)
        /\ UNCHANGED <<faults, appVars>>

DeletePlayer ==
    \E player_id \in Ids :
        /\ delete_player(player_id, DeleteStatements)
        /\ UNCHANGED <<faults, appVars>>

GetPlayersCall == get_players /\ UNCHANGED <<faults, appVars>>

Next ==
    \/ InitH5
    \/ InitH5Refused
    \/ AddPlayer
    \/ UpdateVisits
    \/ ClearPlayerVisits
    \/ DeletePlayer
    \/ GetPlayersCall

Spec == Init /\ [][Next]_vars

\* SpecFault: as Spec, and a statement in the middle of an operation may
\* raise (an I/O error of the HDF5 library, or a value h5py cannot store,
\* such as a colour of None or a code that is not a string).  The with-block
\* closes the file and the statements already run stay in it.
InitH5Fault ==
    \E palette_hexes \in BOOLEAN :
        \E done \in 2..(InitStatements(palette_hexes) - 1) :
            /\ init_h5(palette_hexes, done)
            /\ Fault(done, InitStatements(palette_hexes))
            /\ UNCHANGED appVars

AddPlayerFault ==
    \E player_id \in Ids, colour \in Colours :
        \E done \in 0..(AddPlayerStatements - 1) :
            /\ add_player(player_id, colour, done)
            /\ Fault(done, AddPlayerStatements)
            /\ UNCHANGED appVars

UpdateVisitsFault ==
    \E player_id \in Ids, iso_codes \in CodeLists :
        \E done \in 0..(UpdateVisitsStatements - 1) :
            /\ update_visits(player_id, iso_codes, done)
            /\ Fault(done, UpdateVisitsStatements)
            /\ UNCHANGED appVars

ClearPlayerVisitsFault ==
    \E player_id \in Ids :
        \E done \in 0..(ClearStatements - 1) :
            /\ clear_player_visits(player_id, done)
            /\ Fault(done, ClearStatements)
            /\ UNCHANGED appVars

DeletePlayerFault ==
    \E player_id \in Ids :
        \E done \in 0..(DeleteStatements - 1) :
            /\ delete_player(player_id, done)
            /\ Fault(done, DeleteStatements)
            /\ UNCHANGED appVars

NextFault ==
    \/ InitH5
    \/ InitH5Refused
    \/ AddPlayer
    \/ UpdateVisits
    \/ ClearPlayerVisits
    \/ DeletePlayer
    \/ GetPlayersCall
    \/ InitH5Fault
    \/ AddPlayerFault
    \/ UpdateVisitsFault
    \/ ClearPlayerVisitsFault
    \/ DeletePlayerFault

SpecFault == Init /\ [][NextFault]_vars

\* SpecDir: as Spec, for a filename whose parent directory may not exist
\* when the program starts.
InitDir ==
    /\ dirExists \in BOOLEAN
    /\ fileExists = FALSE
    /\ hasPlayers = FALSE
    /\ store = {}
    /\ clock = 1
    /\ faults = 0
    /\ lastOp = Op("start", NoArg, "ok", "absent")
    /\ session = [s \in Sessions |-> Idle]
    /\ style = NoStyle
    /\ LaterIdle

OpenRefused ==
    \E op \in OpenOps, player_id \in Ids :
        /\ open_refused(op, player_id)
        /\ UNCHANGED <<faults, appVars>>

NextDir ==
    \/ InitH5
    \/ InitH5Refused
    \/ AddPlayer
    \/ UpdateVisits
    \/ ClearPlayerVisits
    \/ DeletePlayer
    \/ GetPlayersCall
    \/ OpenRefused

SpecDir == InitDir /\ [][NextDir]_vars

\* --------------------------------------------------- the application's save
\* The save handlers of app.py (save_countries_callback, and the individual
\* save of the multi-player mode) run clear_player_visits and then, when
\* the session's selection is not empty, update_visits with list(selection).
\* Each call opens the file and closes it before it returns; the handler
\* holds nothing between the two calls, so a step of another session's
\* handler can come between them.

\* The countries a session can tick, and its selections: sets of at most
\* MaxCodes of them.
SaveCodes == {"US", "CA"}

Selections == {SetToSet(q) : q \in SeqsUpTo(SaveCodes, MaxCodes)}

\* list(selection): the elements of the set, in an order the caller does
\* not control.
ListsOf(selection) ==
    {q \in SeqsUpTo(selection, Cardinality(selection)) :
        SetToSet(q) = selection}

\* Faulty variant of save_clear: a save starts only when no other session
\* is between the two calls of its own save.
save_clear_locked(s, player_id, selection) ==
    /\ session[s].pc = "idle"
    /\ \A t \in Sessions : session[t].pc # "cleared"
    /\ clear_player_visits(player_id, ClearStatements)
    /\ session' = [session EXCEPT
                      ![s] = [pc |-> "cleared", id |-> player_id,
                              selection |-> selection]]

\* Faulty variant of save_clear: nothing is cleared before the update.
save_clear_skipped(s, player_id, selection) ==
    /\ session[s].pc = "idle"
    /\ lastOp' = Op("clear_player_visits", player_id, "ok",
                    Had(store, player_id))
    /\ UNCHANGED <<dirExists, fileExists, hasPlayers, store, clock>>
    /\ session' = [session EXCEPT
                      ![s] = [pc |-> "cleared", id |-> player_id,
                              selection |-> selection]]

\* The first call of the handler: clear_player_visits(player_id).
save_clear(s, player_id, selection) ==
    /\ session[s].pc = "idle"
    /\ clear_player_visits(player_id, ClearStatements)
    /\ session' = [session EXCEPT
                      ![s] = [pc |-> "cleared", id |-> player_id,
                              selection |-> selection]]

\* Faulty variant of save_update: only the first code of the list is
\* written.
save_update_first(s, iso_codes) ==
    /\ session[s].pc = "cleared"
    /\ session[s].selection # {}
    /\ iso_codes \in ListsOf(session[s].selection)
    /\ update_visits(session[s].id, <<iso_codes[1]>>, UpdateVisitsStatements)
    /\ session' = [session EXCEPT ![s].pc = "saved"]

\* The second call: update_visits(player_id, list(selection)), made when
\* the selection is not empty.
save_update(s, iso_codes) ==
    /\ session[s].pc = "cleared"
    /\ session[s].selection # {}
    /\ iso_codes \in ListsOf(session[s].selection)
    /\ update_visits(session[s].id, iso_codes, UpdateVisitsStatements)
    /\ session' = [session EXCEPT ![s].pc = "saved"]

\* An empty selection: the handler makes no second call.
save_skip(s) ==
    /\ session[s].pc = "cleared"
    /\ session[s].selection = {}
    /\ session' = [session EXCEPT ![s].pc = "saved"]
    /\ UNCHANGED <<dirExists, fileExists, hasPlayers, store, clock, lastOp>>

\* The process stops between the two calls.
save_crash(s) ==
    /\ session[s].pc = "cleared"
    /\ session' = [session EXCEPT ![s].pc = "crashed"]
    /\ UNCHANGED <<dirExists, fileExists, hasPlayers, store, clock, lastOp>>

\* The next script run of the session: the handler is ready again.
save_rerun(s) ==
    /\ session[s].pc \in {"saved", "crashed"}
    /\ session' = [session EXCEPT ![s] = Idle]
    /\ UNCHANGED <<dirExists, fileExists, hasPlayers, store, clock, lastOp>>

SaveClear ==
    \E s \in Sessions, player_id \in Names(store), selection \in Selections :
        /\ save_clear(s, player_id, selection)
        /\ UNCHANGED <<faults, style, laterVars>>

SaveUpdate ==
    \E s \in Sessions :
        \E iso_codes \in ListsOf(session[s].selection) :
            /\ save_update(s, iso_codes)
            /\ UNCHANGED <<faults, style, laterVars>>

SaveSkip == \E s \in Sessions : save_skip(s) /\ UNCHANGED <<faults, style, laterVars>>

SaveCrash == \E s \in Sessions : save_crash(s) /\ UNCHANGED <<faults, style, laterVars>>

SaveRerun == \E s \in Sessions : save_rerun(s) /\ UNCHANGED <<faults, style, laterVars>>

\* SpecSave: the sessions save, in a store to which add_player has added
\* the participants A and B.
SavePlayer(player_id, colour) ==
    SetCreated(SetColour(CreateDataset(NewGroup(player_id)), colour), 1)

InitSave ==
    /\ dirExists = TRUE
    /\ fileExists = TRUE
    /\ hasPlayers = TRUE
    /\ store = {SavePlayer("A", "#111111"), SavePlayer("B", "#222222")}
    /\ clock = 1
    /\ faults = 0
    /\ lastOp = Op("add_player", "B", "ok", "absent")
    /\ session = [s \in Sessions |-> Idle]
    /\ style = NoStyle
    /\ LaterIdle

NextSave ==
    \/ SaveClear
    \/ SaveUpdate
    \/ SaveSkip
    \/ SaveCrash
    \/ SaveRerun

SpecSave == InitSave /\ [][NextSave]_vars

\* SpecSaveOne: as SpecSave with one session, the store's single writer.
OneSession == "s1"

OneSaveClear ==
    \E player_id \in Names(store), selection \in Selections :
        /\ save_clear(OneSession, player_id, selection)
        /\ UNCHANGED <<faults, style, laterVars>>

OneSaveUpdate ==
    \E iso_codes \in ListsOf(session[OneSession].selection) :
        /\ save_update(OneSession, iso_codes)
        /\ UNCHANGED <<faults, style, laterVars>>

OneSaveSkip == save_skip(OneSession) /\ UNCHANGED <<faults, style, laterVars>>

OneSaveCrash == save_crash(OneSession) /\ UNCHANGED <<faults, style, laterVars>>

OneSaveRerun == save_rerun(OneSession) /\ UNCHANGED <<faults, style, laterVars>>

NextSaveOne ==
    \/ OneSaveClear
    \/ OneSaveUpdate
    \/ OneSaveSkip
    \/ OneSaveCrash
    \/ OneSaveRerun

SpecSaveOne == InitSave /\ [][NextSaveOne]_vars

\* ------------------------------------------------- the colour of a country
\* build_map.style_fn of app.py.  A colour is a Python string, here the
\* sequence of its characters.
Chars(a, b, c, d, e, f) == <<"#", a, b, c, d, e, f>>

\* The owners' colours style_fn is called with: well-formed ones in upper
\* and lower case, one without the leading '#', one of the wrong length and
\* one with characters that are no hex digits.
MergeColours ==
    {Chars("F", "F", "F", "F", "F", "F"),
     Chars("0", "0", "0", "0", "0", "0"),
     Chars("F", "F", "0", "0", "0", "0"),
     Chars("1", "1", "1", "1", "1", "1"),
     Chars("0", "1", "0", "0", "f", "e"),
     <<"2", "2", "2", "2", "2", "2">>,
     <<"#", "F", "F", "F">>,
     Chars("G", "G", "G", "G", "G", "G")}

\* The digits "{:02x}" writes.
HexDigits ==
    <<"0", "1", "2", "3", "4", "5", "6", "7", "8", "9",
      "a", "b", "c", "d", "e", "f">>

UpperDigits == <<"A", "B", "C", "D", "E", "F">>

\* The value of a character as a digit of base 16; -1 when it is none.
HexValue(ch) ==
    IF \E i \in 1..16 : HexDigits[i] = ch
    THEN (CHOOSE i \in 1..16 : HexDigits[i] = ch) - 1
    ELSE IF \E i \in 1..6 : UpperDigits[i] = ch
    THEN (CHOOSE i \in 1..6 : UpperDigits[i] = ch) + 9
    ELSE -1

\* int(hex_color[i:i+2], 16) of two characters; ValueError (here -1) when
\* one of them is no hex digit.
ValueError == -1

Int16(a, b) ==
    IF HexValue(a) < 0 \/ HexValue(b) < 0 THEN ValueError
    ELSE 16 * HexValue(a) + HexValue(b)

\* The colour that stands in for one of the wrong length.
Gray == Chars("7", "7", "7", "7", "7", "7")

\* The '#' is put in front when it is missing; a string that is then not 7
\* characters long is replaced by the gray.
Normalised(hex_color) ==
    LET prefixed == IF Len(hex_color) > 0 /\ hex_color[1] = "#"
                    THEN hex_color ELSE <<"#">> \o hex_color
    IN  IF Len(prefixed) # 7 THEN Gray ELSE prefixed

\* (r, g, b) of a normalised colour.
Rgb(n) == <<Int16(n[2], n[3]), Int16(n[4], n[5]), Int16(n[6], n[7])>>

\* One of the int(..., 16) calls raises ValueError.
Raises(hex_colors) ==
    \E i \in 1..Len(hex_colors), k \in 1..3 :
        Rgb(Normalised(hex_colors[i]))[k] = ValueError

\* sum(color[k] ** 2 for color in rgb_colors)
RECURSIVE SumSquares(_, _)
SumSquares(hex_colors, k) ==
    IF hex_colors = <<>> THEN 0
    ELSE LET c == Rgb(Normalised(Head(hex_colors)))[k]
         IN  c * c + SumSquares(Tail(hex_colors), k)

\* Faulty variant of IntSqrtMean: round((sum / n) ** 0.5), to the nearest
\* integer, a half going to the even one.
IntSqrtMean_Round(sum, n) ==
    LET f == CHOOSE r \in 0..255 : r * r * n <= sum /\ (r + 1) * (r + 1) * n > sum
        half == (2 * f + 1) * (2 * f + 1) * n
    IN  IF 4 * sum > half THEN f + 1
        ELSE IF 4 * sum = half /\ f % 2 = 1 THEN f + 1
        ELSE f

\* Faulty variant of IntSqrtMean: int(sum ** 0.5), the sum is not divided
\* by the number of colours.
IntSqrtMean_NoMean(sum, n) ==
    CHOOSE r \in 0..(255 * n) : r * r <= sum /\ (r + 1) * (r + 1) > sum

\* int((sum / n) ** 0.5): the square root of the mean, cut to its integer
\* part.  The sum is at most n * 255 * 255, so the result is in 0..255.
IntSqrtMean(sum, n) ==
    CHOOSE r \in 0..255 : r * r * n <= sum /\ (r + 1) * (r + 1) * n > sum

\* max(0, min(255, x))
Clamp(x) == IF x < 0 THEN 0 ELSE IF x > 255 THEN 255 ELSE x

\* "{:02x}".format(v)
Hex2(v) == <<HexDigits[(v \div 16) + 1], HexDigits[(v % 16) + 1]>>

\* Faulty variant of Mixed: the colours are weighted by their place in the
\* list, the first one counting twice.
Mixed_FirstTwice(hex_colors) ==
    LET twice == <<Head(hex_colors)>> \o hex_colors
        ch(k) == Clamp(IntSqrtMean(SumSquares(twice, k), Len(twice)))
    IN  <<"#">> \o Hex2(ch(1)) \o Hex2(ch(2)) \o Hex2(ch(3))

\* The mixed colour of two or more owners.
Mixed(hex_colors) ==
    LET ch(k) == Clamp(IntSqrtMean(SumSquares(hex_colors, k), Len(hex_colors)))
    IN  <<"#">> \o Hex2(ch(1)) \o Hex2(ch(2)) \o Hex2(ch(3))

\* The style of a country nobody visited, which is also what the except
\* branch returns after st.warning.
Unvisited(warning) ==
    [fillColor |-> Chars("f", "f", "f", "f", "f", "f"), color |-> "#999",
     warning |-> warning]

\* Faulty variant of SingleOwner: the colour goes through the same
\* normalisation as the colours that are mixed.
SingleOwner_Normalised(colour) ==
    [fillColor |-> Normalised(colour), color |-> "#444", warning |-> FALSE]

\* One owner: their colour, as it is.
SingleOwner(colour) ==
    [fillColor |-> colour, color |-> "#444", warning |-> FALSE]

\* What style_fn returns for a country whose owners have these colours, in
\* the order of player_data.
StyleOf(hex_colors) ==
    IF Len(hex_colors) = 0 THEN Unvisited(FALSE)
    ELSE IF Len(hex_colors) = 1 THEN SingleOwner(hex_colors[1])
    ELSE IF Raises(hex_colors) THEN Unvisited(TRUE)
    ELSE [fillColor |-> Mixed(hex_colors), color |-> "#222",
          warning |-> FALSE]

style_fn ==
    /\ style.result = NoResult
    /\ style' = [style EXCEPT !.result = StyleOf(style.owners)]
    /\ UNCHANGED <<storeVars, faults, lastOp, session, laterVars>>

\* SpecMerge: style_fn is called once for a country whose owners have any
\* list of at most MaxOwners colours.
InitMerge ==
    /\ dirExists = TRUE
    /\ fileExists = FALSE
    /\ hasPlayers = FALSE
    /\ store = {}
    /\ clock = 1
    /\ faults = 0
    /\ lastOp = Op("start", NoArg, "ok", "absent")
    /\ session = [s \in Sessions |-> Idle]
    /\ style \in {[owners |-> hex_colors, result |-> NoResult] :
                      hex_colors \in SeqsUpTo(MergeColours, MaxOwners)}
    /\ LaterIdle

StyleFn == style_fn

NextMerge == StyleFn

SpecMerge == InitMerge /\ [][NextMerge]_vars

\* ---------------------------------------------------------- the map render
\* style_fn(feature) as folium calls it for each feature of the GeoJSON,
\* with the player_data build_map was given.

\* The order of player_data.items().
IdOrder == <<"A", "B">>

\* The ISO3166-1-Alpha-2 property of a feature: a country code, -99 for a
\* territory that is no country, "" when the property is missing.
FeatureCodes == {"DE", "FR", "-99", ""}

\* Colours and visited sets of the participants in player_data.
RenderColours ==
    {Chars("F", "F", "0", "0", "0", "0"),
     Chars("f", "f", "f", "f", "f", "f"),
     Chars("1", "1", "1", "1", "1", "1"),
     Chars("G", "G", "G", "G", "G", "G")}

RenderVisited == SUBSET {"DE", "-99"}

PlayerData ==
    UNION {[ids -> [colour : RenderColours, visited : RenderVisited]] :
              ids \in SUBSET Ids}

\* The style of a feature that is no country.
Neutral ==
    [fillColor |-> Chars("f", "f", "f", "f", "f", "f"), color |-> "#999",
     warning |-> FALSE, fillOpacity |-> "0.1"]

\* owners = [player_id for player_id, player_info in player_data.items()
\*           if iso in player_info["visited"]]
OwnersOf(iso, player_data) ==
    LET Owns(player_id) == /\ player_id \in DOMAIN player_data
                           /\ iso \in player_data[player_id].visited
    IN  SelectSeq(IdOrder, Owns)

\* What style_fn returns for the feature.
StyleOfFeature(iso, player_data) ==
    IF iso = "-99" THEN Neutral
    ELSE LET owners == OwnersOf(iso, player_data)
         IN  StyleOf([i \in 1..Len(owners) |-> player_data[owners[i]].colour])

render_feature ==
    /\ render.result = NoResult
    /\ render' = [render EXCEPT
                     !.result = StyleOfFeature(render.iso, render.player_data)]
    /\ UNCHANGED <<storeVars, faults, lastOp, session, style, palette, ui,
                   auth, redis>>

RenderFeature == render_feature

\* SpecRender: style_fn is called once, for any feature and player_data.
InitRender ==
    /\ dirExists = TRUE
    /\ fileExists = FALSE
    /\ hasPlayers = FALSE
    /\ store = {}
    /\ clock = 1
    /\ faults = 0
    /\ lastOp = Op("start", NoArg, "ok", "absent")
    /\ session = [s \in Sessions |-> Idle]
    /\ style = NoStyle
    /\ palette = NoPalette
    /\ render \in {[iso |-> iso, player_data |-> player_data,
                     result |-> NoResult] :
                       iso \in FeatureCodes, player_data \in PlayerData}
    /\ ui = NoUi
    /\ auth = NoAuth
    /\ redis = NoRedis

NextRender == RenderFeature

SpecRender == InitRender /\ [][NextRender]_vars

\* ------------------------------------------------------------ the palettes
\* get_palettes of h5_utils.py, load_palettes and main of app.py.

\* A palette without a paletteName.
NoName == "<no paletteName>"

\* The objects of the "palettes" list: a paletteName and the hex values of
\* its colours, <<>> for a colour without a hex.
PaletteObjects ==
    {[paletteName |-> "warm",
      colors |-> <<Chars("1", "1", "1", "1", "1", "1"),
                   <<"2", "2", "2", "2", "2", "2">>>>],
     [paletteName |-> "warm",
      colors |-> <<Chars("F", "F", "0", "0", "0", "0")>>],
     [paletteName |-> "cool", colors |-> <<<<>>>>],
     [paletteName |-> "cool", colors |-> <<>>],
     [paletteName |-> "cool",
      colors |-> <<Chars("0", "0", "0", "0", "0", "0")>>],
     [paletteName |-> NoName,
      colors |-> <<Chars("0", "0", "0", "0", "0", "0"), <<>>>>]}

\* What JSON/palettes.json can be: missing, a text that is no JSON, a JSON
\* value that is no object (a list), an object without the key "palettes",
\* or an object with a list of palettes.
PaletteSources ==
    {[kind |-> "missing"], [kind |-> "text"], [kind |-> "array"],
     [kind |-> "object"]}
    \cup {[kind |-> "palettes", palettes |-> q] :
             q \in SeqsUpTo(PaletteObjects, MaxPalettes)}

\* The hex codes of a palette: colours without a hex are skipped, and a
\* '#' is put in front of a hex that does not start with one.
HexCodes(colors) ==
    LET HasHex(c) == c # <<>>
        kept == SelectSeq(colors, HasHex)
    IN  [i \in 1..Len(kept) |->
            IF kept[i][1] = "#" THEN kept[i] ELSE <<"#">> \o kept[i]]

\* palette.get("paletteName", "Unknown")
PaletteName(palette_object) ==
    IF palette_object.paletteName = NoName THEN "Unknown"
    ELSE palette_object.paletteName

\* palettes[name] = hex_codes for each object of the list in turn: a later
\* palette of the same name replaces the earlier one.
RECURSIVE PalettesOf(_)
PalettesOf(list) ==
    IF list = <<>> THEN [n \in {} |-> <<>>]
    ELSE LET before == PalettesOf(SubSeq(list, 1, Len(list) - 1))
             last == list[Len(list)]
         IN  [n \in DOMAIN before \cup {PaletteName(last)} |->
                 IF n = PaletteName(last) THEN HexCodes(last.colors)
                 ELSE before[n]]

\* The hex codes entered in color_info.
RECURSIVE ColorInfoOf(_)
ColorInfoOf(list) ==
    IF list = <<>> THEN {}
    ELSE SetToSet(HexCodes(Head(list).colors)) \cup ColorInfoOf(Tail(list))

\* get_palettes(): {} when the file is missing, is no JSON (JSONDecodeError)
\* or is no JSON object (AttributeError on .get); otherwise the palettes
\* found under "palettes", none when the key is missing, and _color_info.
get_palettes(source) ==
    IF source.kind \in {"missing", "text", "array"} THEN EmptyMapping
    ELSE IF source.kind = "object"
    THEN [empty |-> FALSE, names |-> [n \in {} |-> <<>>], info |-> {}]
    ELSE [empty |-> FALSE, names |-> PalettesOf(source.palettes),
          info |-> ColorInfoOf(source.palettes)]

\* load_palettes(): get_palettes(), which lets no exception out.
load_palettes(source) == get_palettes(source)

\* The palette main puts in when load_palettes returned a falsy value.
DefaultPalettes ==
    [empty |-> FALSE,
     names |-> [n \in {"default"} |->
                  <<Chars("7", "e", "b", "c", "e", "6"),
                    Chars("f", "7", "9", "4", "1", "d"),
                    Chars("a", "2", "a", "d", "0", "0"),
                    Chars("5", "2", "2", "3", "9", "8")>>],
     info |-> {}]

\* The colours offered for a new player: the hex codes of every palette,
\* the key _color_info left out.
ColourOptions(palettes) ==
    UNION {SetToSet(palettes.names[n]) : n \in DOMAIN palettes.names}

\* main, lines 565-571: without the file JSON/palettes.json the page shows
\* an error and main returns.
main_check ==
    /\ palette.pc = "start"
    /\ palette' = [palette EXCEPT
                      !.pc = IF palette.source.kind = "missing"
                             THEN "returned" ELSE "checked"]

\* The file is removed after main has seen it.
source_removed ==
    /\ palette.pc = "checked"
    /\ palette.source.kind # "missing"
    /\ palette' = [palette EXCEPT !.source = [kind |-> "missing"]]

\* main, lines 584-593: palettes = load_palettes(), replaced by the default
\* palette when it is falsy.
main_load ==
    /\ palette.pc = "checked"
    /\ LET loaded == load_palettes(palette.source)
       IN  palette' = [palette EXCEPT
                         !.pc = "loaded",
                         !.palettes = IF loaded.empty THEN DefaultPalettes
                                      ELSE loaded]

paletteRest ==
    <<storeVars, faults, lastOp, session, style, render, ui, auth, redis>>

MainCheck == main_check /\ UNCHANGED paletteRest

SourceRemoved == source_removed /\ UNCHANGED paletteRest

MainLoad == main_load /\ UNCHANGED paletteRest

\* SpecPalette: main runs up to its palette load, for any palettes.json.
InitPalette ==
    /\ dirExists = TRUE
    /\ fileExists = FALSE
    /\ hasPlayers = FALSE
    /\ store = {}
    /\ clock = 1
    /\ faults = 0
    /\ lastOp = Op("start", NoArg, "ok", "absent")
    /\ session = [s \in Sessions |-> Idle]
    /\ style = NoStyle
    /\ palette \in {[source |-> src, pc |-> "start", palettes |-> EmptyMapping] :
                        src \in PaletteSources}
    /\ render = NoRender
    /\ ui = NoUi
    /\ auth = NoAuth
    /\ redis = NoRedis

NextPalette ==
    \/ MainCheck
    \/ SourceRemoved
    \/ MainLoad

SpecPalette == InitPalette /\ [][NextPalette]_vars

\* ------------------------------------------------- the multi-player page
\* multi_player_mode: one pass of the script handles the button that was
\* pressed (lines 964-1085), takes the edits of the table (1097-1115) and
\* then renders the page (from 1121 on).  ui.players is the module-level
\* mapping `players`, by its keys.

\* The key selected_player_to_edit is not in the session state.
NoSelected == "<no selected_player_to_edit>"

\* No message is set (None, or the key is missing).
NoMessage == <<>>

\* The codes of the table, and what can be ticked in it.
UiCodes == {"US"}

UiSelections == SUBSET UiCodes

UiLists == SeqsUpTo(UiCodes, Cardinality(UiCodes))

\* The text input new_player_name: empty, or one of the names.
PlayerNames == {""} \cup Ids

\* f"Player '{name}' already exists!"
AlreadyExists(name) == <<"Player '", name, "' already exists!">>

EnterName == <<"Please enter a player name">>

\* f"Added player: {name}"
Added(name) == <<"Added player: ", name>>

\* f"Deleted player: {selected_player}"
Deleted(name) == <<"Deleted player: ", name>>

\* f"Cleared visited countries for: {selected_player}"
ClearedFor(name) == <<"Cleared visited countries for: ", name>>

SavedAll == <<"Saved all players' country selections">>

\* f"Updated visited countries for {player_id}: {visited_count} countries
\* marked as visited"
Updated(name, visited_count) ==
    <<"Updated visited countries for ", name, ": ", visited_count,
      " countries marked as visited">>

\* The page of a session whose first pass found an empty store.
FirstPage ==
    [pc |-> "page", button |-> "none", players |-> {},
     hasSelections |-> TRUE, selections |-> [p \in {} |-> {}],
     selected |-> NoSelected, new_player_name |-> "",
     error |-> NoMessage, success |-> NoMessage, wrote |-> {}]

\* `players` when the handlers of a pass run.  Streamlit runs the script
\* from its first line on every pass, and line 15 makes players the empty
\* mapping; a caller that keeps the module and calls multi_player_mode
\* again finds what the last pass left.
ScriptStart(fromTop) == IF fromTop THEN {} ELSE ui.players

\* list(players.keys())[0]: h5py lists the members of a group by name.
First(names) ==
    LET In(p) == p \in names
    IN  SelectSeq(IdOrder, In)[1]

\* selections[player_id] = value
Put(selections, player_id, value) ==
    [p \in DOMAIN selections \cup {player_id} |->
        IF p = player_id THEN value ELSE selections[p]]

\* del selections[player_id]
Drop(selections, player_id) ==
    [p \in DOMAIN selections \ {player_id} |-> selections[p]]

\* What a pass leaves alone outside the store and the page.
uiRest == <<faults, session, style, palette, render, auth, redis>>

\* The handler of the Add Player button, lines 964-992.
add_player_handler(players, new_player_color) ==
    /\ ui.pc = "page"
    /\ LET name == ui.new_player_name
       IN  IF name = ""
           THEN /\ ui' = [ui EXCEPT !.pc = "handled",
                                    !.button = "add_player_button",
                                    !.players = players,
                                    !.error = EnterName]
                /\ UNCHANGED <<storeVars, lastOp>>
           ELSE IF name \in players
           THEN /\ ui' = [ui EXCEPT !.pc = "handled",
                                    !.button = "add_player_button",
                                    !.players = players,
                                    !.error = AlreadyExists(name)]
                /\ UNCHANGED <<storeVars, lastOp>>
           ELSE /\ add_player(name, new_player_color, AddPlayerStatements)
                /\ ui' = [ui EXCEPT !.pc = "handled",
                                    !.button = "add_player_button",
                                    !.players = Names(store'),
                                    !.success = Added(name),
                                    !.selections =
                                        IF ui.hasSelections
                                        THEN Put(@, name, {}) ELSE @,
                                    !.new_player_name = ""]

\* Faulty variant of delete_player_handler: selected_player_to_edit is
\* left as it was.
delete_player_handler_keeps ==
    /\ ui.pc = "page"
    /\ ui.players # {}
    /\ ui.selected # NoSelected
    /\ delete_player(ui.selected, DeleteStatements)
    /\ ui' = [ui EXCEPT !.pc = "handled",
                        !.button = "delete_player_button",
                        !.players = Names(store'),
                        !.success = Deleted(ui.selected),
                        !.selections =
                            IF ui.hasSelections
                            THEN Drop(@, ui.selected) ELSE @]

\* The handler of the Delete Player button, lines 994-1021; the button is
\* on the page when the rendered mapping is not empty.
delete_player_handler ==
    /\ ui.pc = "page"
    /\ ui.players # {}
    /\ ui.selected # NoSelected
    /\ delete_player(ui.selected, DeleteStatements)
    /\ ui' = [ui EXCEPT !.pc = "handled",
                        !.button = "delete_player_button",
                        !.players = Names(store'),
                        !.success = Deleted(ui.selected),
                        !.selections =
                            IF ui.hasSelections
                            THEN Drop(@, ui.selected) ELSE @,
                        !.selected =
                            IF Names(store') = {} THEN NoSelected
                            ELSE First(Names(store'))]

\* The handler of the Clear Visited Countries button, lines 1023-1042.
clear_countries_handler ==
    /\ ui.pc = "page"
    /\ ui.players # {}
    /\ ui.selected # NoSelected
    /\ clear_player_visits(ui.selected, ClearStatements)
    /\ ui' = [ui EXCEPT !.pc = "handled",
                        !.button = "clear_countries_button",
                        !.players = Names(store'),
                        !.success = ClearedFor(ui.selected),
                        !.selections =
                            IF ui.hasSelections /\ ui.selected \in DOMAIN @
                            THEN Put(@, ui.selected, {}) ELSE @]

\* The loop of the Save All Players handler over
\* multi_player_selections.items(), taken in `order`: where it leaves the
\* store, for which ids it changed a dataset, and whether update_visits
\* raised KeyError.
RECURSIVE SaveAllDone(_, _, _, _, _)
SaveAllDone(s, order, players, selections, lists) ==
    IF order = <<>> THEN [store |-> s, wrote |-> {}, raised |-> FALSE]
    ELSE LET playerid == Head(order)
             cleared == ClearDone(s, playerid, ClearStatements)
             updated == IF selections[playerid] = {} THEN cleared
                        ELSE UpdateVisitsDone(cleared, playerid,
                                              lists[playerid],
                                              UpdateVisitsStatements)
         IN  IF playerid \notin players
             THEN SaveAllDone(s, Tail(order), players, selections, lists)
             ELSE IF selections[playerid] # {} /\ ~HasDataset(s, playerid)
             THEN [store |-> s, wrote |-> {}, raised |-> TRUE]
             ELSE LET rest == SaveAllDone(updated, Tail(order), players,
                                          selections, lists)
                  IN  [rest EXCEPT !.wrote =
                          @ \cup (IF HasDataset(s, playerid)
                                  THEN {playerid} ELSE {})]

\* The orders in which a dict can hold its keys.
OrdersOf(keys) ==
    {q \in SeqsUpTo(keys, Cardinality(keys)) : SetToSet(q) = keys}

\* list(selectedcountries), for each entry.
ListsFor(selections) ==
    {lists \in [DOMAIN selections -> UiLists] :
        \A p \in DOMAIN selections : lists[p] \in ListsOf(selections[p])}

\* The handler of the Save All Players button, lines 1044-1060.
save_all_players_handler(players, order, lists) ==
    /\ ui.pc = "page"
    /\ ui.players # {}
    /\ ui.hasSelections
    /\ order \in OrdersOf(DOMAIN ui.selections)
    /\ lists \in ListsFor(ui.selections)
    /\ LET done == SaveAllDone(store, order, players, ui.selections, lists)
       IN  /\ store' = done.store
           /\ lastOp' = Op("save_all", NoArg,
                           IF done.raised THEN "KeyError" ELSE "ok",
                           HadStore(store))
           /\ ui' = IF done.raised
                    THEN [ui EXCEPT !.pc = "raised",
                                    !.button = "save_all_players_button",
                                    !.players = players,
                                    !.wrote = done.wrote]
                    ELSE [ui EXCEPT !.pc = "handled",
                                    !.button = "save_all_players_button",
                                    !.players = Names(done.store),
                                    !.success = SavedAll,
                                    !.wrote = done.wrote]
    /\ UNCHANGED <<dirExists, fileExists, hasPlayers, clock>>

\* The handler of the button save_<player_id>, lines 1062-1085: the loop
\* over players.keys() looks at the buttons of the ids in `players` only.
save_player_handler(players, player_id, selections) ==
    /\ ui.pc = "page"
    /\ ui.players # {}
    /\ player_id = ui.selected
    /\ LET has == /\ ui.hasSelections
                  /\ player_id \in DOMAIN ui.selections
                  /\ ui.selections[player_id] # {}
           cleared == ClearDone(store, player_id, ClearStatements)
       IN  IF player_id \notin players
           THEN /\ ui' = [ui EXCEPT !.pc = "handled",
                                    !.button = "save_player",
                                    !.players = players]
                /\ UNCHANGED <<store, lastOp>>
           ELSE IF has /\ ~HasDataset(store, player_id)
           THEN /\ ui' = [ui EXCEPT !.pc = "raised",
                                    !.button = "save_player",
                                    !.players = players]
                /\ lastOp' = Op("update_visits", player_id, "KeyError",
                                Had(store, player_id))
                /\ UNCHANGED store
           ELSE /\ selections \in ListsOf(IF has THEN ui.selections[player_id]
                                          ELSE {})
                /\ store' = IF has
                            THEN UpdateVisitsDone(cleared, player_id,
                                                  selections,
                                                  UpdateVisitsStatements)
                            ELSE cleared
                /\ lastOp' = Op(IF has THEN "update_visits"
                                ELSE "clear_player_visits",
                                player_id, "ok", Had(store, player_id))
                /\ ui' = [ui EXCEPT !.pc = "handled",
                                    !.button = "save_player",
                                    !.players = Names(store'),
                                    !.success =
                                        Updated(player_id, Len(selections)),
                                    !.wrote = IF HasDataset(store, player_id)
                                              THEN {player_id} ELSE {}]
    /\ UNCHANGED <<dirExists, fileExists, hasPlayers, clock>>

\* The table of the selected participant was edited, lines 1097-1115: the
\* entry of an id in `players` follows the rows of its table.
edit_selection(players, selection) ==
    /\ ui.pc = "page"
    /\ ui.hasSelections
    /\ ui.selected \in players
    /\ ui' = [ui EXCEPT !.pc = "handled", !.button = "none",
                        !.selections = Put(@, ui.selected, selection)]
    /\ UNCHANGED <<storeVars, lastOp>>

\* The user types into the text input new_player_name.
type_name(name) ==
    /\ ui.pc = "page"
    /\ name # ui.new_player_name
    /\ ui' = [ui EXCEPT !.new_player_name = name]
    /\ UNCHANGED <<storeVars, lastOp>>

\* The user picks a participant in the selectbox, whose options are the
\* keys of the rendered mapping.
select_player(player_id) ==
    /\ ui.pc = "page"
    /\ player_id \in ui.players
    /\ player_id # ui.selected
    /\ ui' = [ui EXCEPT !.selected = player_id]
    /\ UNCHANGED <<storeVars, lastOp>>

\* The rest of the pass, from line 1121: the store is read again, the
\* selections are made from it when the session has none, the messages are
\* shown and reset, and selected_player_to_edit is set when it is missing.
render_page ==
    /\ ui.pc \in {"handled", "raised"}
    /\ LET players == Names(store)
           made == IF ui.hasSelections THEN ui.selections
                   ELSE [p \in players |-> Read.players[p].visited]
           selected_player == IF players # {} /\ ui.selected = NoSelected
                              THEN First(players) ELSE ui.selected
       IN  ui' = [ui EXCEPT
                     !.pc = "page",
                     !.button = "none",
                     !.players = players,
                     !.hasSelections = TRUE,
                     !.selections =
                         IF selected_player \in players \ DOMAIN made
                         THEN Put(made, selected_player,
                                  Read.players[selected_player].visited)
                         ELSE made,
                     !.selected = selected_player,
                     !.error = NoMessage,
                     !.success = NoMessage,
                     !.wrote = {}]
    /\ UNCHANGED <<storeVars, lastOp>>

\* Another session's Delete Player handler removes a participant.
other_delete(player_id) ==
    /\ player_id \in Names(store)
    /\ delete_player(player_id, DeleteStatements)
    /\ UNCHANGED ui

AddPlayerHandler ==
    \E fromTop \in BOOLEAN, new_player_color \in Colours :
        /\ add_player_handler(ScriptStart(fromTop), new_player_color)
        /\ UNCHANGED uiRest

DeletePlayerHandler == delete_player_handler /\ UNCHANGED uiRest

ClearCountriesHandler == clear_countries_handler /\ UNCHANGED uiRest

SaveAllPlayersHandler ==
    \E fromTop \in BOOLEAN :
        \E order \in OrdersOf(DOMAIN ui.selections),
           lists \in ListsFor(ui.selections) :
            /\ save_all_players_handler(ScriptStart(fromTop), order, lists)
            /\ UNCHANGED uiRest

SavePlayerHandler ==
    \E fromTop \in BOOLEAN, selections \in UiLists :
        /\ save_player_handler(ScriptStart(fromTop), ui.selected, selections)
        /\ UNCHANGED uiRest

EditSelection ==
    \E fromTop \in BOOLEAN, selection \in UiSelections :
        /\ edit_selection(ScriptStart(fromTop), selection)
        /\ UNCHANGED uiRest

TypeName == \E name \in PlayerNames : type_name(name) /\ UNCHANGED uiRest

SelectPlayer == \E player_id \in Ids : select_player(player_id) /\ UNCHANGED uiRest

RenderPage == render_page /\ UNCHANGED uiRest

OtherDelete == \E player_id \in Ids : other_delete(player_id) /\ UNCHANGED uiRest

\* SpecUi: one session on the multi-player page of an initialised, empty
\* store, and another session that deletes participants.
InitUi ==
    /\ dirExists = TRUE
    /\ fileExists = TRUE
    /\ hasPlayers = TRUE
    /\ store = {}
    /\ clock = 1
    /\ faults = 0
    /\ lastOp = Op("init_h5", NoArg, "ok", "absent")
    /\ session = [s \in Sessions |-> Idle]
    /\ style = NoStyle
    /\ palette = NoPalette
    /\ render = NoRender
    /\ ui = FirstPage
    /\ auth = NoAuth
    /\ redis = NoRedis

NextUi ==
    \/ AddPlayerHandler
    \/ DeletePlayerHandler
    \/ ClearCountriesHandler
    \/ SaveAllPlayersHandler
    \/ SavePlayerHandler
    \/ EditSelection
    \/ TypeName
    \/ SelectPlayer
    \/ RenderPage
    \/ OtherDelete

SpecUi == InitUi /\ [][NextUi]_vars

\* ------------------------------------------------------ the credential store
\* redis_utils: the keys auth:<username> and data:<username> of a Redis
\* server that answers, and the workers that call add_user, register_user
\* and authenticate_user; every Redis command is one step.

Users == {"u", "v"}

\* The usernames registrations are made for.
NewUsers == {"u"}

Passwords == {"p", "q"}

Workers == {"w1", "w2"}

\* r.get of a key that is not set: None.
Nil == <<>>

\* hash_password: the SHA-256 hex digest of the encoded password; two of
\* the passwords here have different digests.
hash_password(password) == <<"sha256", password>>

\* No creation time, no login time (None, or the key is not in the JSON
\* object).
NoTime == 0

\* data:<username> is not set.
NoData == [set |-> FALSE, created |-> NoTime, last_login |-> NoTime]

\* A worker between two calls.
Resting ==
    [pc |-> "idle", op |-> "none", username |-> "", password |-> "",
     user_data |-> NoData, result |-> FALSE, known |-> {}]

\* The server with no key set and the workers at rest; `added` holds the
\* (username, password) pairs for which add_user has returned True, `asked`
\* the usernames add_user was called for.
EmptyRedis ==
    [pc |-> "on",
     auth |-> [u \in Users |-> Nil],
     data |-> [u \in Users |-> NoData],
     proc |-> [w \in Workers |-> Resting],
     added |-> {}, asked |-> {}]

\* user_exists(username): r.exists("auth:<username>")
user_exists(db, username) == db.auth[username] # Nil

\* What a pass leaves alone outside the credential store.
redisRest ==
    <<dirExists, fileExists, hasPlayers, store, faults, lastOp, session,
      style, palette, render, ui, auth>>

Returned(w, result) ==
    [redis.proc[w] EXCEPT !.pc = "returned", !.result = result]

\* A worker calls add_user(username, password).
call_add_user(w, username, password) ==
    /\ redis.proc[w].pc = "idle"
    /\ redis' = [redis EXCEPT
                    !.proc[w] = [Resting EXCEPT !.pc = "add:exists",
                                                !.op = "add_user",
                                                !.username = username,
                                                !.password = password],
                    !.asked = @ \cup {username}]
    /\ UNCHANGED clock

\* A worker calls register_user(username, password).
call_register_user(w, username, password) ==
    /\ redis.proc[w].pc = "idle"
    /\ redis' = [redis EXCEPT
                    !.proc[w] = [Resting EXCEPT !.pc = "register:exists",
                                                !.op = "register_user",
                                                !.username = username,
                                                !.password = password]]
    /\ UNCHANGED clock

\* A worker calls authenticate_user(username, password); `known` keeps the
\* passwords add_user has returned True for with that username.
call_authenticate_user(w, username, password) ==
    /\ redis.proc[w].pc = "idle"
    /\ redis' = [redis EXCEPT
                    !.proc[w] =
                        [Resting EXCEPT
                            !.pc = "authenticate:exists",
                            !.op = "authenticate_user",
                            !.username = username,
                            !.password = password,
                            !.known = {p \in Passwords :
                                          <<username, p>> \in redis.added}]]
    /\ UNCHANGED clock

\* register_user, lines 198-199: if user_exists(username): return False
register_exists(w) ==
    /\ redis.proc[w].pc = "register:exists"
    /\ redis' = [redis EXCEPT
                    !.proc[w] =
                        IF user_exists(redis, redis.proc[w].username)
                        THEN Returned(w, FALSE)
                        ELSE [@ EXCEPT !.pc = "add:exists"],
                    !.asked = @ \cup
                        (IF user_exists(redis, redis.proc[w].username)
                         THEN {} ELSE {redis.proc[w].username})]
    /\ UNCHANGED clock

\* add_user, lines 122-124: if user_exists(username): return False
add_exists(w) ==
    /\ redis.proc[w].pc = "add:exists"
    /\ redis' = [redis EXCEPT
                    !.proc[w] =
                        IF user_exists(redis, redis.proc[w].username)
                        THEN Returned(w, FALSE)
                        ELSE [@ EXCEPT !.pc = "add:set_auth"]]
    /\ UNCHANGED clock

\* add_user, line 129: r.set("auth:<username>", hashed_password)
add_set_auth(w) ==
    /\ redis.proc[w].pc = "add:set_auth"
    /\ redis' = [redis EXCEPT
                    !.auth[redis.proc[w].username] =
                        hash_password(redis.proc[w].password),
                    !.proc[w].pc = "add:set_data"]
    /\ UNCHANGED clock

\* add_user, lines 132-139: r.set("data:<username>", {"created": now,
\* "last_login": None}); return True
add_set_data(w) ==
    /\ redis.proc[w].pc = "add:set_data"
    /\ \E t \in clock..MaxClock :
          /\ clock' = t
          /\ redis' = [redis EXCEPT
                          !.data[redis.proc[w].username] =
                              [set |-> TRUE, created |-> t,
                               last_login |-> NoTime],
                          !.proc[w] = Returned(w, TRUE),
                          !.added = @ \cup {<<redis.proc[w].username,
                                              redis.proc[w].password>>}]

\* authenticate_user, lines 158-160: if not user_exists(username): return
\* False
authenticate_exists(w) ==
    /\ redis.proc[w].pc = "authenticate:exists"
    /\ redis' = [redis EXCEPT
                    !.proc[w] =
                        IF user_exists(redis, redis.proc[w].username)
                        THEN [@ EXCEPT !.pc = "authenticate:get_auth"]
                        ELSE Returned(w, FALSE)]
    /\ UNCHANGED clock

\* authenticate_user, lines 162-169: the stored hash is read and compared
\* with the hash of the password.
authenticate_get_auth(w) ==
    /\ redis.proc[w].pc = "authenticate:get_auth"
    /\ LET stored_hash == redis.auth[redis.proc[w].username]
           input_hash == hash_password(redis.proc[w].password)
       IN  redis' = [redis EXCEPT
                        !.proc[w] =
                            IF stored_hash # Nil /\ stored_hash = input_hash
                            THEN [@ EXCEPT !.pc = "authenticate:get_data"]
                            ELSE Returned(w, FALSE)]
    /\ UNCHANGED clock

\* authenticate_user, lines 173-176: user_data = json.loads(r.get(
\* "data:<username>") or '{}')
authenticate_get_data(w) ==
    /\ redis.proc[w].pc = "authenticate:get_data"
    /\ redis' = [redis EXCEPT
                    !.proc[w].user_data = redis.data[redis.proc[w].username],
                    !.proc[w].pc = "authenticate:set_data"]
    /\ UNCHANGED clock

\* authenticate_user, lines 177-182: user_data["last_login"] = now;
\* r.set("data:<username>", json.dumps(user_data)); return True
authenticate_set_data(w) ==
    /\ redis.proc[w].pc = "authenticate:set_data"
    /\ \E t \in clock..MaxClock :
          /\ clock' = t
          /\ redis' = [redis EXCEPT
                          !.data[redis.proc[w].username] =
                              [redis.proc[w].user_data EXCEPT
                                  !.set = TRUE, !.last_login = t],
                          !.proc[w] = Returned(w, TRUE)]

\* The caller has the result; the worker is free for the next call.
next_call(w) ==
    /\ redis.proc[w].pc = "returned"
    /\ redis' = [redis EXCEPT !.proc[w] = Resting]
    /\ UNCHANGED clock

CallAddUser ==
    \E w \in Workers, username \in NewUsers, password \in Passwords :
        call_add_user(w, username, password) /\ UNCHANGED redisRest

CallRegisterUser ==
    \E w \in Workers, username \in NewUsers, password \in Passwords :
        call_register_user(w, username, password) /\ UNCHANGED redisRest

CallAuthenticateUser ==
    \E w \in Workers, username \in Users, password \in Passwords :
        call_authenticate_user(w, username, password) /\ UNCHANGED redisRest

RegisterExists == \E w \in Workers : register_exists(w) /\ UNCHANGED redisRest

AddExists == \E w \in Workers : add_exists(w) /\ UNCHANGED redisRest

AddSetAuth == \E w \in Workers : add_set_auth(w) /\ UNCHANGED redisRest

AddSetData == \E w \in Workers : add_set_data(w) /\ UNCHANGED redisRest

AuthenticateExists ==
    \E w \in Workers : authenticate_exists(w) /\ UNCHANGED redisRest

AuthenticateGetAuth ==
    \E w \in Workers : authenticate_get_auth(w) /\ UNCHANGED redisRest

AuthenticateGetData ==
    \E w \in Workers : authenticate_get_data(w) /\ UNCHANGED redisRest

AuthenticateSetData ==
    \E w \in Workers : authenticate_set_data(w) /\ UNCHANGED redisRest

NextCall == \E w \in Workers : next_call(w) /\ UNCHANGED redisRest

\* SpecRedis: two workers call into a server that holds no key.
InitRedis ==
    /\ dirExists = TRUE
    /\ fileExists = FALSE
    /\ hasPlayers = FALSE
    /\ store = {}
    /\ clock = 1
    /\ faults = 0
    /\ lastOp = Op("start", NoArg, "ok", "absent")
    /\ session = [s \in Sessions |-> Idle]
    /\ style = NoStyle
    /\ palette = NoPalette
    /\ render = NoRender
    /\ ui = NoUi
    /\ auth = NoAuth
    /\ redis = EmptyRedis

NextRedis ==
    \/ CallAddUser
    \/ CallRegisterUser
    \/ CallAuthenticateUser
    \/ RegisterExists
    \/ AddExists
    \/ AddSetAuth
    \/ AddSetData
    \/ AuthenticateExists
    \/ AuthenticateGetAuth
    \/ AuthenticateGetData
    \/ AuthenticateSetData
    \/ NextCall

SpecRedis == InitRedis /\ [][NextRedis]_vars

\* SpecRedisOne: as SpecRedis, with one worker calling.
OneWorker == "w1"

OneCallAddUser ==
    \E username \in NewUsers, password \in Passwords :
        call_add_user(OneWorker, username, password) /\ UNCHANGED redisRest

OneCallRegisterUser ==
    \E username \in NewUsers, password \in Passwords :
        call_register_user(OneWorker, username, password)
            /\ UNCHANGED redisRest

OneCallAuthenticateUser ==
    \E username \in Users, password \in Passwords :
        call_authenticate_user(OneWorker, username, password)
            /\ UNCHANGED redisRest

OneStep ==
    /\ \/ register_exists(OneWorker)
       \/ add_exists(OneWorker)
       \/ add_set_auth(OneWorker)
       \/ add_set_data(OneWorker)
       \/ authenticate_exists(OneWorker)
       \/ authenticate_get_auth(OneWorker)
       \/ authenticate_get_data(OneWorker)
       \/ authenticate_set_data(OneWorker)
       \/ next_call(OneWorker)
    /\ UNCHANGED redisRest

NextRedisOne ==
    \/ OneCallAddUser
    \/ OneCallRegisterUser
    \/ OneCallAuthenticateUser
    \/ OneStep

SpecRedisOne == InitRedis /\ [][NextRedisOne]_vars

\* ------------------------------------------------------ the welcome screen
\* The session state keys logged_in and user_id, the handlers of
\* welcome_screen (shown while logged_in is False) and the logout callback
\* of the sidebar (shown while it is True).  A handler's calls into
\* redis_utils run from their first command to their last.

\* st.session_state.user_id = None
NoUser == "<None>"

\* What is typed into a text input: nothing, or a name, or a password.
TypedUsers == {""} \cup Users

TypedPasswords == {""} \cup Passwords

EnterBoth == <<"Please enter both username and password">>

Invalid == <<"Invalid username or password">>

\* f"Welcome back, {login_username}!"
WelcomeBack(username) == <<"Welcome back, ", username, "!">>

FillAll == <<"Please fill in all fields">>

NoMatch == <<"Passwords do not match">>

Taken == <<"Username already exists. Please choose another one.">>

Registered == <<"Registration successful! You can now log in.">>

\* Lines 48-54: the session state of a new session.
NewSession ==
    [pc |-> "welcome", logged_in |-> FALSE, user_id |-> NoUser,
     button |-> "none", username |-> "", password |-> "",
     authenticated |-> FALSE, error |-> NoMessage, success |-> NoMessage]

\* authenticate_user(username, password) run alone: what it returns.
Authenticates(db, username, password) ==
    /\ user_exists(db, username)
    /\ db.auth[username] = hash_password(password)

\* authenticate_user run alone: the keys after a call that returns True.
LoggedIn(db, username, t) ==
    [db EXCEPT !.data[username] = [@ EXCEPT !.set = TRUE, !.last_login = t]]

\* add_user(username, password) run alone on a username that has no
\* credential: the keys after it.
WithUser(db, username, password, t) ==
    [db EXCEPT !.auth[username] = hash_password(password),
               !.data[username] = [set |-> TRUE, created |-> t,
                                   last_login |-> NoTime],
               !.added = @ \cup {<<username, password>>},
               !.asked = @ \cup {username}]

\* What a pass leaves alone outside the session and the credential store.
authRest ==
    <<dirExists, fileExists, hasPlayers, store, faults, lastOp, session,
      style, palette, render, ui>>

\* The handler of the Login button, lines 281-298.
login_handler(login_username, login_password) ==
    /\ auth.pc = "welcome"
    /\ IF login_username = "" \/ login_password = ""
       THEN /\ auth' = [auth EXCEPT !.button = "login_button",
                                    !.username = login_username,
                                    !.password = login_password,
                                    !.authenticated = FALSE,
                                    !.error = EnterBoth,
                                    !.success = NoMessage]
            /\ UNCHANGED <<redis, clock>>
       ELSE IF Authenticates(redis, login_username, login_password)
       THEN /\ \E t \in clock..MaxClock :
                  /\ clock' = t
                  /\ redis' = LoggedIn(redis, login_username, t)
            /\ auth' = [auth EXCEPT !.pc = "app",
                                    !.button = "login_button",
                                    !.username = login_username,
                                    !.password = login_password,
                                    !.authenticated = TRUE,
                                    !.logged_in = TRUE,
                                    !.user_id = login_username,
                                    !.error = NoMessage,
                                    !.success = WelcomeBack(login_username)]
       ELSE /\ auth' = [auth EXCEPT !.button = "login_button",
                                    !.username = login_username,
                                    !.password = login_password,
                                    !.authenticated = FALSE,
                                    !.error = Invalid,
                                    !.success = NoMessage]
            /\ UNCHANGED <<redis, clock>>

\* The handler of the Login as Demo User button, lines 300-306.
demo_login_handler ==
    /\ auth.pc = "welcome"
    /\ auth' = [auth EXCEPT !.pc = "app",
                            !.button = "demo_login_button",
                            !.logged_in = TRUE,
                            !.user_id = "demo_user",
                            !.error = NoMessage,
                            !.success = NoMessage]
    /\ UNCHANGED <<redis, clock>>

\* The handler of the Register button, lines 308-333.
register_handler(reg_username, reg_password, reg_confirm_password) ==
    /\ auth.pc = "welcome"
    /\ IF reg_username = "" \/ reg_password = "" \/ reg_confirm_password = ""
       THEN /\ auth' = [auth EXCEPT !.button = "register_button",
                                    !.error = FillAll,
                                    !.success = NoMessage]
            /\ UNCHANGED <<redis, clock>>
       ELSE IF reg_password # reg_confirm_password
       THEN /\ auth' = [auth EXCEPT !.button = "register_button",
                                    !.error = NoMatch,
                                    !.success = NoMessage]
            /\ UNCHANGED <<redis, clock>>
       ELSE IF user_exists(redis, reg_username)
       THEN /\ auth' = [auth EXCEPT !.button = "register_button",
                                    !.error = Taken,
                                    !.success = NoMessage]
            /\ UNCHANGED <<redis, clock>>
       ELSE /\ \E t \in clock..MaxClock :
                  /\ clock' = t
                  /\ redis' = WithUser(redis, reg_username, reg_password, t)
            /\ auth' = [auth EXCEPT !.button = "register_button",
                                    !.error = NoMessage,
                                    !.success = Registered]

\* Faulty variant of logout_callback: user_id is left as it was.
logout_callback_keeps ==
    /\ auth.pc = "app"
    /\ auth.logged_in
    /\ auth' = [auth EXCEPT !.pc = "welcome",
                            !.button = "logout_button",
                            !.logged_in = FALSE,
                            !.error = NoMessage,
                            !.success = NoMessage]
    /\ UNCHANGED <<redis, clock>>

\* main.logout_callback, lines 603-614; the button is in the sidebar while
\* logged_in is True.
logout_callback ==
    /\ auth.pc = "app"
    /\ auth.logged_in
    /\ auth' = [auth EXCEPT !.pc = "welcome",
                            !.button = "logout_button",
                            !.logged_in = FALSE,
                            !.user_id = NoUser,
                            !.error = NoMessage,
                            !.success = NoMessage]
    /\ UNCHANGED <<redis, clock>>

LoginHandler ==
    \E login_username \in TypedUsers, login_password \in TypedPasswords :
        /\ login_handler(login_username, login_password)
        /\ UNCHANGED authRest

DemoLoginHandler == demo_login_handler /\ UNCHANGED authRest

RegisterHandler ==
    \E reg_username \in TypedUsers,
       reg_password \in TypedPasswords,
       reg_confirm_password \in TypedPasswords :
        /\ register_handler(reg_username, reg_password, reg_confirm_password)
        /\ UNCHANGED authRest

LogoutCallback == logout_callback /\ UNCHANGED authRest

\* SpecAuth: one session in front of a server that holds no key.
InitAuth ==
    /\ dirExists = TRUE
    /\ fileExists = FALSE
    /\ hasPlayers = FALSE
    /\ store = {}
    /\ clock = 1
    /\ faults = 0
    /\ lastOp = Op("start", NoArg, "ok", "absent")
    /\ session = [s \in Sessions |-> Idle]
    /\ style = NoStyle
    /\ palette = NoPalette
    /\ render = NoRender
    /\ ui = NoUi
    /\ auth = NewSession
    /\ redis = EmptyRedis

NextAuth ==
    \/ LoginHandler
    \/ DemoLoginHandler
    \/ RegisterHandler
    \/ LogoutCallback

SpecAuth == InitAuth /\ [][NextAuth]_vars

\* SpecRoundTrip: as Spec, with the visits written by update_visits drawn
\* from DE and FR.
RoundTripUpdateVisits ==
    \E player_id \in Ids, iso_codes \in RoundTripLists :
        /\ update_visits(player_id, iso_codes, UpdateVisitsStatements)
        /\ UNCHANGED <<faults, appVars>>

NextRoundTrip ==
    \/ InitH5
    \/ AddPlayer
    \/ RoundTripUpdateVisits
    \/ ClearPlayerVisits
    \/ DeletePlayer
    \/ GetPlayersCall

SpecRoundTrip == Init /\ [][NextRoundTrip]_vars

\* -------------------------------------------------------------- properties
\* What a get_players() call returns right after the step.
ReadAfter == GetPlayers(fileExists', hasPlayers', store')

Entry(s, player_id) == CHOOSE e \in s : e.name = player_id

\* Every participant other than player_id reads the same before and after.
OthersUnchanged(player_id) ==
    /\ DOMAIN ReadAfter.players \ {player_id} = DOMAIN Read.players \ {player_id}
    /\ \A other \in DOMAIN Read.players \ {player_id} :
          ReadAfter.players[other] = Read.players[other]

\* C1: for every id that is not in the store and every colour, after
\* add_player(id, colour) get_players() returns a mapping that holds id with
\* exactly that colour and an empty visited set, and every other
\* participant's record is what it was.
C1_AddThenList ==
    [][\A player_id \in {lastOp'.id} \cap Ids, colour \in Colours :
          (lastOp'.op = "add_player"
              /\ add_player(player_id, colour, AddPlayerStatements)
              /\ Group(store, player_id) = {})
          => /\ ~ReadAfter.err
             /\ player_id \in DOMAIN ReadAfter.players
             /\ ReadAfter.players[player_id].colour = colour
             /\ ReadAfter.players[player_id].visited = {}
             /\ OthersUnchanged(player_id)]_vars

\* C1 witness: add_player has just created a participant, beside another
\* one that has visits.
C1_Witness ==
    /\ lastOp.op = "add_player" /\ lastOp.result = "ok" /\ lastOp.had = "absent"
    /\ Cardinality(store) = 2
    /\ Entry(store, lastOp.id).visited = <<>>
    /\ \E e \in store : e.name # lastOp.id /\ e.visited # <<>>

\* C2: update_visits(id, codes) on an existing participant appends: the
\* stored sequence afterwards is the sequence before followed by codes in
\* the given order, get_players() reads exactly the codes of both, and no
\* other participant's colour, created or visited changes.
C2_UpdateAppends ==
    [][\A player_id \in {lastOp'.id} \cap Ids :
        \A iso_codes \in (IF lastOp'.op = "update_visits" THEN CodeLists ELSE {}) :
          (update_visits(player_id, iso_codes, UpdateVisitsStatements)
              /\ HasDataset(store, player_id))
          => /\ lastOp'.result = "ok"
             /\ store' = {IF e.name = player_id
                          THEN [e EXCEPT !.visited =
                                    e.visited \o Encoded(iso_codes)]
                          ELSE e : e \in store}
             /\ ReadAfter.players[player_id].visited =
                    Read.players[player_id].visited \cup SetToSet(iso_codes)
             /\ OthersUnchanged(player_id)]_vars

\* C2 witness: an append onto a participant that already had visits has
\* left US, CA, FR stored in that order.
C2_Witness ==
    /\ lastOp.op = "update_visits" /\ lastOp.result = "ok" /\ lastOp.had = "visits"
    /\ Entry(store, lastOp.id).visited = Encoded(<<"US", "CA", "FR">>)
    /\ Read.players[lastOp.id].visited = {"US", "CA", "FR"}

C4_DeletePlayer ==
    [][\A player_id \in {lastOp'.id} \cap Ids :
          (lastOp'.op = "delete_player"
              /\ delete_player(player_id, DeleteStatements))
          => /\ lastOp'.result = "ok"
             /\ store' = {e \in store : e.name # player_id}
             /\ player_id \notin DOMAIN ReadAfter.players
             /\ OthersUnchanged(player_id)
             /\ Group(store, player_id) = {} => ReadAfter = Read]_vars

\* C4 witness: delete_player has just removed a participant that had
\* visits, and another participant is still in the store.
C4_Witness ==
    /\ lastOp.op = "delete_player" /\ lastOp.result = "ok" /\ lastOp.had = "visits"
    /\ lastOp.id \notin DOMAIN Read.players
    /\ DOMAIN Read.players # {}

\* C5: add_player(id, colour) on an id that exists sets the colour in place
\* and leaves that participant's stored visited sequence as it was.
C5_ReAddKeepsVisits ==
    [][\A player_id \in {lastOp'.id} \cap Ids, colour \in Colours :
          (lastOp'.op = "add_player"
              /\ add_player(player_id, colour, AddPlayerStatements)
              /\ Group(store, player_id) # {})
          => /\ lastOp'.result = "ok"
             /\ \A e \in Group(store, player_id) :
                   \E e2 \in Group(store', player_id) :
                       e2.visited = e.visited /\ e2.colour = colour
             /\ ReadAfter.players[player_id].visited =
                    Read.players[player_id].visited
             /\ ReadAfter.players[player_id].colour = colour
             /\ OthersUnchanged(player_id)]_vars

\* C5 witness: add_player has just run on a participant that had visits,
\* and the visits are still stored.
C5_Witness ==
    /\ lastOp.op = "add_player" /\ lastOp.result = "ok" /\ lastOp.had = "visits"
    /\ Entry(store, lastOp.id).visited # <<>>

\* C6: in every state reached by init_h5, add_player, update_visits,
\* clear_player_visits and delete_player each id names at most one
\* participant group, and add_player on an existing id leaves the number of
\* participants unchanged.
UniqueIds(s) == \A e1 \in s, e2 \in s : e1.name = e2.name => e1 = e2

C6_UniqueIds ==
    [][/\ UniqueIds(store')
       /\ \A player_id \in {lastOp'.id} \cap Ids, colour \in Colours :
             (lastOp'.op = "add_player"
                 /\ add_player(player_id, colour, AddPlayerStatements)
                 /\ Group(store, player_id) # {})
             => /\ Cardinality(store') = Cardinality(store)
                /\ DOMAIN ReadAfter.players = DOMAIN Read.players]_vars

\* C6 witness: add_player has just run on an id that existed, with visits,
\* in a store of two participants.
C6_Witness ==
    /\ lastOp.op = "add_player" /\ lastOp.result = "ok" /\ lastOp.had = "visits"
    /\ Cardinality(store) = 2
    /\ Cardinality(DOMAIN Read.players) = 2

\* C7: a participant's created timestamp is set when the participant is
\* first added and is not changed by a later add_player on the same id,
\* update_visits or clear_player_visits while the participant exists.
C7_CreatedSetOnce ==
    [][lastOp'.op \in {"add_player", "update_visits", "clear_player_visits"}
       => \A e \in store, e2 \in store' :
             e.name = e2.name => e2.created = e.created]_vars

\* C8: update_visits(id, codes) on an id that is not in the store fails with
\* a not-found error (KeyError), and no participant record is created or
\* changed: get_players() returns what it returned before.
C8_UpdateUnknownId ==
    [][(lastOp'.op = "update_visits" /\ Group(store, lastOp'.id) = {})
       => /\ lastOp'.result = "KeyError"
          /\ store' = store
          /\ ReadAfter = Read]_vars

\* C8 witness: update_visits has just failed on an id that is not in the
\* store, which holds another participant with visits.
C8_Witness ==
    /\ lastOp.op = "update_visits" /\ lastOp.result = "KeyError"
    /\ lastOp.had = "absent"
    /\ lastOp.id \notin DOMAIN Read.players
    /\ \E n \in DOMAIN Read.players : Read.players[n].visited # {}

\* The stores a complete run of the operation can leave, for any arguments.
CompleteEffects(op, player_id) ==
    CASE op = "add_player" ->
            {AddPlayerDone(store, player_id, colour, t, AddPlayerStatements) :
                colour \in Colours, t \in clock..MaxClock}
      [] op = "update_visits" ->
            IF HasDataset(store, player_id)
            THEN {UpdateVisitsDone(store, player_id, iso_codes, UpdateVisitsStatements) :
                     iso_codes \in CodeLists}
            ELSE {store}
      [] op = "clear_player_visits" ->
            {ClearDone(store, player_id, ClearStatements)}
      [] op = "delete_player" ->
            {DeleteDone(store, player_id, DeleteStatements)}
      [] OTHER -> {store}

\* C9: once add_player, update_visits, clear_player_visits or delete_player
\* has returned, normally or with an error, get_players() observes either
\* what it observed before the operation or the operation's complete
\* effect, never a half-written participant.
C9_AllOrNothing ==
    [][lastOp'.op \in {"add_player", "update_visits", "clear_player_visits",
                       "delete_player"}
       => \/ ReadAfter = Read
          \/ \E s \in CompleteEffects(lastOp'.op, lastOp'.id) :
                ReadAfter = GetPlayers(TRUE, TRUE, s)]_vars

\* C10: after a successful init_h5 the store has zero participants and
\* get_players() is the empty mapping, also when the target held a store
\* with participants and visits.
C10_InitEmpties ==
    (lastOp.op = "init_h5" /\ lastOp.result = "True")
    => /\ store = {}
       /\ fileExists /\ hasPlayers
       /\ ~Read.err
       /\ DOMAIN Read.players = {}

\* C10 witness: init_h5 has just succeeded on a target that held
\* participants with visits.
C10_Witness ==
    /\ lastOp.op = "init_h5" /\ lastOp.result = "True" /\ lastOp.had = "visits"
    /\ DOMAIN Read.players = {}

C12_GetPlayersReadOnly ==
    [][lastOp'.op = "get_players"
       => /\ UNCHANGED <<dirExists, fileExists, hasPlayers, store>>
          /\ ReadAfter = Read
          /\ (~fileExists \/ ~hasPlayers)
                => /\ lastOp'.result = "ok"
                   /\ ~Read.err
                   /\ Read.players = <<>>]_vars

\* C12 witness: get_players has just returned while there is no file, and
\* there is still none.
C12_Witness ==
    /\ lastOp.op = "get_players" /\ lastOp.result = "ok"
    /\ lastOp.had = "absent"
    /\ ~fileExists
    /\ DOMAIN Read.players = {}

\* The records (colour and visited set per id) a caller has built: m is
\* what it had built before the call.
BuiltByAdd(m, player_id, colour) ==
    [n \in DOMAIN m \cup {player_id} |->
        IF n # player_id THEN m[n]
        ELSE IF n \in DOMAIN m THEN [m[n] EXCEPT !.colour = colour]
        ELSE [colour |-> colour, visited |-> {}]]

BuiltByUpdate(m, player_id, iso_codes) ==
    [m EXCEPT ![player_id].visited = @ \cup SetToSet(iso_codes)]

BuiltByClear(m, player_id) ==
    [n \in DOMAIN m |->
        IF n = player_id THEN [m[n] EXCEPT !.visited = {}] ELSE m[n]]

BuiltByDelete(m, player_id) == [n \in DOMAIN m \ {player_id} |-> m[n]]

\* The colour and visited set of each record of a get_players() mapping.
Records(m) ==
    [n \in DOMAIN m |-> [colour |-> m[n].colour, visited |-> m[n].visited]]

SameRecords(m1, m2) ==
    /\ DOMAIN m1 = DOMAIN m2
    /\ \A n \in DOMAIN m1 : m1[n] = m2[n]

\* C13: what get_players() returns from the file after an operation has
\* closed it is, in ids, colours and visited sets, the record set built by
\* the operations so far: the one read before the operation, changed as the
\* caller's arguments say (a participant added or recoloured, codes joined
\* to a visited set, a visited set emptied, a participant removed, all
\* participants dropped by init_h5).
C13_RoundTrip ==
    [][/\ ~ReadAfter.err
       /\ (lastOp'.op = "init_h5" /\ lastOp'.result = "True")
             => DOMAIN ReadAfter.players = {}
       /\ \A player_id \in {lastOp'.id} \cap Ids :
             /\ \A colour \in Colours :
                   (lastOp'.op = "add_player"
                       /\ add_player(player_id, colour, AddPlayerStatements))
                   => SameRecords(Records(ReadAfter.players),
                          BuiltByAdd(Records(Read.players), player_id, colour))
             /\ \A iso_codes \in (IF lastOp'.op = "update_visits"
                                    /\ lastOp'.result = "ok"
                                  THEN RoundTripLists ELSE {}) :
                   update_visits(player_id, iso_codes, UpdateVisitsStatements)
                   => SameRecords(Records(ReadAfter.players),
                          BuiltByUpdate(Records(Read.players), player_id,
                                        iso_codes))
             /\ lastOp'.op = "clear_player_visits"
                   => SameRecords(Records(ReadAfter.players),
                          BuiltByClear(Records(Read.players), player_id))
             /\ lastOp'.op = "delete_player"
                   => SameRecords(Records(ReadAfter.players),
                          BuiltByDelete(Records(Read.players), player_id))]_vars

\* C13 witness: A was written with colour #111111 and the visit DE, B with
\* colour #222222 and the visits DE and FR; the file holds the encoded
\* codes and get_players() returns exactly these two records.
C13_Witness ==
    /\ lastOp.op = "get_players" /\ lastOp.result = "ok"
    /\ {e.visited : e \in Group(store, "A")} = {Encoded(<<"DE">>)}
    /\ {e.visited : e \in Group(store, "B")} = {Encoded(<<"DE", "FR">>)}
    /\ SameRecords(Records(Read.players),
                   [n \in {"A", "B"} |->
                       IF n = "A"
                       THEN [colour |-> "#111111", visited |-> {"DE"}]
                       ELSE [colour |-> "#222222", visited |-> {"DE", "FR"}]])

\* C14: update_visits(id, codes) on an existing participant makes the
\* stored sequence longer by exactly len(codes), whether or not the codes
\* are already stored; the set get_players() returns is never larger than
\* the stored sequence, and it does not grow at all when every code was
\* stored already.
C14_NoDedup ==
    [][\A player_id \in {lastOp'.id} \cap Ids :
        \A iso_codes \in (IF lastOp'.op = "update_visits"
                              /\ lastOp'.result = "ok"
                           THEN CodeLists ELSE {}) :
          update_visits(player_id, iso_codes, UpdateVisitsStatements)
          => /\ Len(Entry(store', player_id).visited) =
                    Len(Entry(store, player_id).visited) + Len(iso_codes)
             /\ Cardinality(ReadAfter.players[player_id].visited) <=
                    Len(Entry(store', player_id).visited)
             /\ SetToSet(iso_codes) \subseteq Read.players[player_id].visited
                   => ReadAfter.players[player_id].visited =
                          Read.players[player_id].visited]_vars

\* C14 witness: US was appended to a participant that had US stored; the
\* dataset holds it twice and get_players() reports one visited country.
C14_Witness ==
    /\ lastOp.op = "update_visits" /\ lastOp.result = "ok"
    /\ lastOp.had = "visits"
    /\ Entry(store, lastOp.id).visited = Encoded(<<"US", "US">>)
    /\ Read.players[lastOp.id].visited = {"US"}
    /\ Cardinality(Read.players[lastOp.id].visited)
           < Len(Entry(store, lastOp.id).visited)

\* C15: a save is two steps.  The first, clear_player_visits(p), leaves p
\* in the store with its colour and created value and an empty visited
\* sequence; the second, update_visits(p, list(selection)), is a later step
\* that appends to what p holds then.  When the handler stops between the
\* two (a crash), or makes no second call (an empty selection), the store
\* stays as the first step left it: while no other operation has run since
\* that clear, p is present with its colour and zero visited countries.
C15_SaveNotAtomic ==
    [][\A s \in Sessions :
        LET p == session'[s].id
            stopped == \/ session'[s].pc = "crashed"
                       \/ session'[s].pc = "saved" /\ session[s].selection = {}
        IN  /\ (session[s].pc = "idle" /\ session'[s].pc = "cleared")
                  => /\ lastOp' = Op("clear_player_visits", p, "ok",
                                     Had(store, p))
                     /\ store' = {IF e.name = p
                                  THEN [e EXCEPT !.visited = <<>>]
                                  ELSE e : e \in store}
                     /\ p \in DOMAIN ReadAfter.players
                     /\ ReadAfter.players[p] =
                            [Read.players[p] EXCEPT !.visited = {}]
            /\ (session[s].pc = "cleared" /\ stopped)
                  => /\ UNCHANGED <<storeVars, lastOp>>
                     /\ (lastOp.op = "clear_player_visits" /\ lastOp.id = p)
                           => /\ p \in DOMAIN ReadAfter.players
                              /\ ReadAfter.players[p].visited = {}
                              /\ ReadAfter.players[p].colour \in Colours
            /\ (session[s].pc = "cleared" /\ session'[s].pc = "saved"
                    /\ session[s].selection # {})
                  => \E iso_codes \in ListsOf(session[s].selection) :
                        store' = {IF e.name = p
                                  THEN [e EXCEPT !.visited =
                                            e.visited \o Encoded(iso_codes)]
                                  ELSE e : e \in store}]_vars

\* C15 witness: a session with a selection to save stopped after its
\* clear; the participant, which had visits, is in the store with its
\* colour and no visited country.
C15_Witness ==
    \E s \in Sessions :
        /\ session[s].pc = "crashed"
        /\ session[s].selection # {}
        /\ lastOp = Op("clear_player_visits", session[s].id, "ok", "visits")
        /\ session[s].id \in DOMAIN Read.players
        /\ Read.players[session[s].id].visited = {}
        /\ Read.players[session[s].id].colour \in Colours

\* The stored sequences of participant p.
StoredOf(p) == {e.visited : e \in Group(store, p)}

\* C16: every step is one whole store operation of one session (they are
\* serialized), and a session that stands between its clear and its update
\* holds nothing: another session can start its own save of the same
\* participant right then.  When two sessions have both finished a save of
\* one participant, the stored sequence is a listing of one selection, or a
\* listing of one followed by a listing of the other.
C16_SaveNotProtected ==
    \A s \in Sessions, t \in Sessions :
        s # t =>
        /\ (session[s].pc = "cleared" /\ session[t].pc = "idle")
              => ENABLED (\E selection \in Selections :
                            /\ save_clear(t, session[s].id, selection)
                            /\ UNCHANGED <<faults, style, laterVars>>)
        /\ (session[s].pc = "saved" /\ session[t].pc = "saved"
                /\ session[s].id = session[t].id)
              => \E l1 \in ListsOf(session[s].selection),
                    l2 \in ListsOf(session[t].selection) :
                    StoredOf(session[s].id) \subseteq
                        {Encoded(l1), Encoded(l2), Encoded(l1 \o l2),
                         Encoded(l2 \o l1)}

\* C16 witness: both sessions have finished a save of the same participant,
\* and what is stored is neither selection: it is a listing of the first
\* followed by a listing of the second, with a code stored twice.
C16_Witness ==
    /\ session["s1"].pc = "saved" /\ session["s2"].pc = "saved"
    /\ session["s1"].id = session["s2"].id
    /\ session["s1"].selection \cap session["s2"].selection # {}
    /\ \E l1 \in ListsOf(session["s1"].selection),
          l2 \in ListsOf(session["s2"].selection) :
          StoredOf(session["s1"].id) = {Encoded(l1 \o l2)}
    /\ \A l \in ListsOf(session["s1"].selection)
                  \cup ListsOf(session["s2"].selection) :
          Encoded(l) \notin StoredOf(session["s1"].id)

\* style_fn has returned for the owners in style.
Styled == style.result # NoResult

White == Chars("F", "F", "F", "F", "F", "F")

Black == Chars("0", "0", "0", "0", "0", "0")

\* Exactly 6 hex digits after an optional '#'.
WellFormed(hex_color) ==
    LET digits == IF Len(hex_color) > 0 /\ hex_color[1] = "#"
                  THEN Tail(hex_color) ELSE hex_color
    IN  /\ Len(digits) = 6
        /\ \A i \in 1..6 : HexValue(digits[i]) >= 0

\* C17: with exactly one owner, the fill colour style_fn returns is that
\* owner's colour string, character for character, and nothing is reported
\* as an error.
C17_SingleOwnerUnchanged ==
    (Styled /\ Len(style.owners) = 1)
    => /\ style.result.fillColor = style.owners[1]
       /\ ~style.result.warning

\* C17 witness: the one owner's colour is #FF0000 and the fill colour is
\* #FF0000.
C17_Witness ==
    /\ Styled
    /\ style.owners = <<Chars("F", "F", "0", "0", "0", "0")>>
    /\ style.result.fillColor = Chars("F", "F", "0", "0", "0", "0")

\* C18 as stated: with two or more well-formed owner colours each channel
\* of the fill colour is round(sqrt(mean of the squared channel values)),
\* clamped to 0..255, and #FFFFFF with #000000 gives #B5B5B5 (181 in each
\* channel).
C18_RoundedMean ==
    (Styled /\ Len(style.owners) >= 2
        /\ \A i \in 1..Len(style.owners) : WellFormed(style.owners[i]))
    => /\ \A k \in 1..3 :
             Rgb(style.result.fillColor)[k] =
                 Clamp(IntSqrtMean_Round(SumSquares(style.owners, k),
                                         Len(style.owners)))
       /\ style.owners = <<White, Black>>
             => Rgb(style.result.fillColor) = <<181, 181, 181>>

\* C18: with two or more owners whose colours parse, the fill colour is
\* '#' and six lower-case hex digits, and each of its channels is the
\* integer part of sqrt(mean of the squared channel values): the r in
\* 0..255 with r*r <= mean < (r+1)*(r+1).  #FFFFFF with #000000 gives
\* #b4b4b4 (180 in each channel).
C18_TruncatedMean ==
    (Styled /\ Len(style.owners) >= 2 /\ ~Raises(style.owners))
    => LET fill == style.result.fillColor
           n == Len(style.owners)
       IN  /\ Len(fill) = 7 /\ fill[1] = "#"
           /\ \A i \in 2..7 : \E d \in 1..16 : fill[i] = HexDigits[d]
           /\ \A k \in 1..3 :
                 LET r == Rgb(fill)[k]
                     sum == SumSquares(style.owners, k)
                 IN  /\ r \in 0..255
                     /\ r * r * n <= sum
                     /\ (r + 1) * (r + 1) * n > sum
           /\ style.owners = <<White, Black>>
                 => fill = Chars("b", "4", "b", "4", "b", "4")

\* C18 witness: #FFFFFF and #000000 were mixed into #b4b4b4.
C18_Witness ==
    /\ Styled
    /\ style.owners = <<White, Black>>
    /\ style.result.fillColor = Chars("b", "4", "b", "4", "b", "4")
    /\ style.result.color = "#222"

\* The list of owners' colours in another order.
Reordered(hex_colors, f) == [i \in 1..Len(hex_colors) |-> hex_colors[f[i]]]

\* C19: for every list of owners' colours and every permutation of it,
\* style_fn returns the same style, so the merged colour depends only on
\* the multiset of the colours.
C19_OrderIndependent ==
    Styled
    => \A f \in Permutations(1..Len(style.owners)) :
          StyleOf(Reordered(style.owners, f)) = style.result

\* C19 witness: three owners with three different colours were mixed.
C19_Witness ==
    /\ Styled
    /\ Len(style.owners) = 3
    /\ Cardinality(SetToSet(style.owners)) = 3
    /\ style.result.color = "#222"
    /\ style.result.fillColor = Mixed(style.owners)

\* The owners' colours with each malformed one replaced by the gray.
RECURSIVE Repaired(_)
Repaired(hex_colors) ==
    IF hex_colors = <<>> THEN <<>>
    ELSE <<IF WellFormed(Head(hex_colors)) THEN Head(hex_colors) ELSE Gray>>
             \o Repaired(Tail(hex_colors))

\* C20: with two or more owners of which one has a malformed colour (wrong
\* length or characters that are no hex digits), the country gets the
\* mixed style, its fill colour being the mix of the owners' colours with
\* the gray in place of the malformed one; style_fn does not warn and does
\* not return the unvisited style.
C20_MalformedBecomesGray ==
    (Styled /\ Len(style.owners) >= 2
        /\ \E i \in 1..Len(style.owners) : ~WellFormed(style.owners[i]))
    => /\ ~style.result.warning
       /\ style.result.color = "#222"
       /\ style.result.fillColor = Mixed(Repaired(style.owners))

\* The palette source is missing, or holds nothing get_palettes can make a
\* palette colour of.
Unusable(source) == ColourOptions(get_palettes(source)) = {}

\* C21: when palettes.json is missing or malformed, main goes on past its
\* load step with the built-in default palette, and after the load step
\* the palettes offered for colour choice are never empty.
C21_PalettesNeverEmpty ==
    /\ palette.pc = "loaded" => ColourOptions(palette.palettes) # {}
    /\ (palette.pc \in {"returned", "loaded"} /\ Unusable(palette.source))
          => /\ palette.pc = "loaded"
             /\ palette.palettes = DefaultPalettes

\* The participants of player_data whose visited set holds the code.
Visitors(iso, player_data) ==
    {n \in DOMAIN player_data : iso \in player_data[n].visited}

\* The style of a country nobody visited: fill #ffffff, border #999.
IsUnvisitedStyle(result) ==
    /\ result.fillColor = Chars("f", "f", "f", "f", "f", "f")
    /\ result.color = "#999"

\* C22: a feature with the code -99 gets the neutral style whatever the
\* participants visited; any other feature gets the unvisited style if and
\* only if no participant's visited set holds its code, the colour of the
\* one participant whose visited set holds it when there is one, and the
\* mixed style when there are more.
C22_OwnersDecideFill ==
    render.result # NoResult
    => LET visitors == Visitors(render.iso, render.player_data)
       IN  IF render.iso = "-99" THEN render.result = Neutral
           ELSE /\ IsUnvisitedStyle(render.result) <=> visitors = {}
                /\ \A n \in visitors :
                      visitors = {n}
                      => render.result.fillColor = render.player_data[n].colour
                /\ Cardinality(visitors) >= 2 => render.result.color = "#222"

\* A sequence in which no element comes twice.
NoRepeats(q) == Cardinality(SetToSet(q)) = Len(q)

Handles(button) ==
    /\ ui.pc = "page"
    /\ ui'.pc \in {"handled", "raised"}
    /\ ui'.button = button

\* C24: when the Add Player handler runs with a name that is a participant
\* of the store, it sets the error "Player '<name>' already exists!" and
\* the store is left as it was.
C24_ExistingNameRefused ==
    [][Handles("add_player_button") /\ ui.new_player_name \in Names(store)
       => /\ ui'.error = AlreadyExists(ui.new_player_name)
          /\ store' = store]_vars

\* The participants of the store that have an entry in
\* multi_player_selections.
Entered == Names(store) \cap DOMAIN ui.selections

\* C25: the Save All Players handler makes the stored visited set of every
\* participant of the store that has an entry in multi_player_selections
\* equal to that entry, writes for no id that is not in the store, and
\* sets the success message only when the datasets of those participants
\* were written.
C25_SaveAllWrites ==
    [][Handles("save_all_players_button")
       => /\ \A p \in Entered :
                /\ p \in DOMAIN ReadAfter.players
                /\ ReadAfter.players[p].visited = ui.selections[p]
          /\ ui'.wrote \subseteq Names(store)
          /\ Names(store') = Names(store)
          /\ ui'.success = SavedAll => Entered \subseteq ui'.wrote]_vars

\* C26: when the Delete Player handler has run for the selected
\* participant p, p is not in the store and has no entry in
\* multi_player_selections, and selected_player_to_edit is missing, with
\* no participant left, or names a participant of the store, never p.
C26_DeleteLeavesNoTrace ==
    [][Handles("delete_player_button")
       => /\ ui.selected \notin Names(store')
          /\ ui.selected \notin DOMAIN ui'.selections
          /\ ui'.selected # ui.selected
          /\ \/ ui'.selected = NoSelected /\ Names(store') = {}
             \/ ui'.selected \in Names(store')]_vars

\* C26 witness: the handler has deleted a participant that had visits and
\* an entry, and selected_player_to_edit names the participant that is
\* left.
C26_Witness ==
    /\ ui.pc = "handled"
    /\ ui.button = "delete_player_button"
    /\ lastOp.op = "delete_player" /\ lastOp.had = "visits"
    /\ ui.success = Deleted(lastOp.id)
    /\ lastOp.id \notin DOMAIN ui.selections
    /\ ui.selected \in Names(store)

\* logged_in is True if and only if user_id is not None.
LoggedInHasUser(a) == a.logged_in <=> a.user_id # NoUser

\* C27: in every state of the session logged_in is True if and only if
\* user_id is not None; the Login button makes logged_in True only in a
\* pass in which authenticate_user returns True for the username and the
\* password that were entered, neither empty; and the logout callback
\* leaves logged_in False and user_id None.
C27_LoggedInIffUser ==
    /\ LoggedInHasUser(auth)
    /\ [][/\ LoggedInHasUser(auth')
          /\ (~auth.logged_in /\ auth'.logged_in
                /\ auth'.button = "login_button")
             => /\ auth'.username # "" /\ auth'.password # ""
                /\ Authenticates(redis, auth'.username, auth'.password)
                /\ auth'.authenticated
                /\ auth'.user_id = auth'.username
          /\ (auth.logged_in /\ auth'.button = "logout_button")
             => ~auth'.logged_in /\ auth'.user_id = NoUser]_vars

\* C27 witness: the session has logged in as u through the Login button,
\* and authenticate_user has written last_login beside the created value
\* of the registration.
C27_Witness ==
    /\ auth.logged_in
    /\ auth.button = "login_button"
    /\ auth.user_id = "u"
    /\ auth.authenticated
    /\ redis.data["u"].last_login = MaxClock
    /\ redis.data["u"].created = 1

\* The step in which worker w returns from a call of op.
Returns(w, op) ==
    /\ redis.proc[w].pc \notin {"idle", "returned"}
    /\ redis'.proc[w].pc = "returned"
    /\ redis'.proc[w].op = op

\* The keys a step leaves as they were, but for last_login of data:<u>.
OnlyLastLogin(username) ==
    /\ redis'.auth = redis.auth
    /\ \A u \in Users \ {username} : redis'.data[u] = redis.data[u]
    /\ redis'.data[username].created = redis.data[username].created

\* C28: when authenticate_user(u, q) returns, it returns True exactly when
\* q is the password of every add_user(u, p) that had returned True before
\* the call; for a username add_user was never called with it returns
\* False; and the step in which it returns True changes nothing but
\* last_login of data:<u>.
C28_AuthenticatesAdded ==
    [][\A w \in Workers :
          Returns(w, "authenticate_user")
          => LET call == redis'.proc[w]
             IN  /\ \A p \in call.known :
                       call.result = (call.password = p)
                 /\ call.username \notin redis.asked => ~call.result
                 /\ call.result => OnlyLastLogin(call.username)]_vars

\* C29: once add_user has returned True for a username, no later step
\* changes auth:<username>, and no add_user or register_user for that
\* username returns True again.
C29_CredentialWrittenOnce ==
    [][\A u \in Users :
          (\E p \in Passwords : <<u, p>> \in redis.added)
          => /\ redis'.auth[u] = redis.auth[u]
             /\ \A w \in Workers :
                   /\ redis.proc[w].pc \notin {"idle", "returned"}
                   /\ redis'.proc[w].pc = "returned"
                   /\ redis'.proc[w].op \in {"add_user", "register_user"}
                   /\ redis'.proc[w].username = u
                   => ~redis'.proc[w].result]_vars

\* '#' and six lower-case hex digits, the form style_fn writes.
LowerCase(hex_color) ==
    /\ Len(hex_color) = 7
    /\ hex_color[1] = "#"
    /\ \A i \in 2..7 : \E d \in 1..16 : hex_color[i] = HexDigits[d]

\* The owners' values of channel k.
ChannelValues(hex_colors, k) ==
    {Rgb(Normalised(hex_colors[i]))[k] : i \in 1..Len(hex_colors)}

\* C30: with two or more owners whose colours are all well-formed, every
\* channel of the fill colour is at least the smallest and at most the
\* largest of the owners' values of that channel, and is the value before
\* the clamp; when all the owners have the same colour, the fill colour
\* has that colour's channel values, and is the same string when the
\* colour is written as '#' and lower-case digits.
C30_WithinOwners ==
    (/\ Styled
     /\ Len(style.owners) >= 2
     /\ \A i \in 1..Len(style.owners) : WellFormed(style.owners[i]))
    => LET fill == style.result.fillColor
           n == Len(style.owners)
       IN  /\ ~style.result.warning
           /\ \A k \in 1..3 :
                 LET x == IntSqrtMean(SumSquares(style.owners, k), n)
                     values == ChannelValues(style.owners, k)
                 IN  /\ Clamp(x) = x
                     /\ Rgb(fill)[k] = x
                     /\ \E v \in values : v <= Rgb(fill)[k]
                     /\ \E v \in values : Rgb(fill)[k] <= v
           /\ Cardinality(SetToSet(style.owners)) = 1
                 => /\ Rgb(fill) = Rgb(Normalised(style.owners[1]))
                    /\ LowerCase(style.owners[1]) => fill = style.owners[1]

\* C30 witness: three owners with the colour #0100fe were mixed into
\* #0100fe.
C30_Witness ==
    /\ Styled
    /\ style.owners = <<Chars("0", "1", "0", "0", "f", "e"),
                        Chars("0", "1", "0", "0", "f", "e"),
                        Chars("0", "1", "0", "0", "f", "e")>>
    /\ style.result.fillColor = Chars("0", "1", "0", "0", "f", "e")
    /\ style.result.color = "#222"

====
